---- MODULE Spec2Model ----
(***************************************************************************)
(* A model of telegraph-sdk:                                               *)
(*   telegraph/content/html.py        TelegraphHTMLParser, HTMLProcessor   *)
(*   telegraph/content/validators.py  ContentValidator                     *)
(*   telegraph/core/client.py         TelegraphClient                      *)
(*   telegraph/upload/batch_uploader.py  BatchUploader                     *)
(*                                                                         *)
(* Strings.  A Python str is modelled as a sequence of character groups.   *)
(* A group is a record [k, tag, attrs, s, esc]:                            *)
(*   k = "text"      the plain characters s ("x", or the blank " ")        *)
(*   k = "start"     the characters  <tag a="v" ...>                       *)
(*   k = "end"       the characters  </tag>                                *)
(*   k = "startend"  the characters  <tag a="v" ... />                     *)
(*   k = "marked"    the characters  <![x y]>                              *)
(* and esc says how many times the markup characters of the group are      *)
(* entity-escaped (esc = 1: &lt;tag&gt;).  An HTML source, the argument of  *)
(* handle_data and a text leaf of a node tree are all such strings, so     *)
(* that writing a text leaf out verbatim and reading it again is not the   *)
(* identity.                                                               *)
(*                                                                         *)
(* Node trees.  A node is a record [isstr, str, keys, tag, attrs,          *)
(* children]: a Python str (isstr) or a dict with the keys `keys`.         *)
(* attrs is the insertion-ordered dict as a sequence of <<name, value>>.   *)
(* A list that the parser refers to (current_nodes, the entries of         *)
(* parent_stack) is modelled by its path from the root list `nodes`:       *)
(* the sequence of child indices leading to the element whose children     *)
(* list it is; <<>> is the root list itself.                               *)
(***************************************************************************)
EXTENDS Integers, Sequences, FiniteSets, TLC

VARIABLES
    \* TelegraphHTMLParser fields of the one parser HTMLProcessor owns
    nodes, current_nodes, parent_stack, tag_stack,
    \* HTMLParser.rawdata: fed text the tokenizer has not consumed
    rawdata,
    \* the handler events delivered since construction, and the last call
    fed, call, ncalls,
    \* TelegraphClient: _access_token, the coroutine of the operation in
    \* progress (its position, its PageContent, processed_content), and the
    \* requests sent to the API
    access_token, cl_pc, cl_content, processed_content, requests,
    \* the other arguments of the operation in progress, the exception that
    \* ended it, the answer to its last request and the seconds _make_request
    \* slept after that answer
    cl_args, cl_exc, cl_response, slept,
    \* concurrent callers of html_to_nodes: position, argument, the locals of
    \* goahead (its copy of rawdata as handler calls still to make), result
    c_pc, c_html, c_todo, c_result,
    \* BatchUploader: the argument of its constructor, its asyncio.Semaphore
    \* (_value and the futures in _waiters) and the tasks of the
    \* upload_files call in progress
    max_concurrent, semaphore, tasks

parserVars == <<nodes, current_nodes, parent_stack, tag_stack, rawdata>>
histVars == <<fed, call, ncalls>>
clientVars ==
    <<access_token, cl_pc, cl_content, processed_content, requests,
      cl_args, cl_exc, cl_response, slept>>
uploadVars == <<max_concurrent, semaphore, tasks>>
concVars == <<c_pc, c_html, c_todo, c_result, uploadVars>>
vars == <<parserVars, histVars, clientVars, concVars>>

----------------------------------------------------------------------------
(* Tag policy: html.py lines 12-43 *)

ALLOWED_TAGS ==
    {"a", "aside", "b", "blockquote", "br", "code", "em", "figcaption",
     "figure", "h3", "h4", "hr", "i", "iframe", "img", "li", "ol", "p",
     "pre", "s", "strong", "u", "ul", "video"}

\* ALLOWED_ATTRIBUTES.get(tag, set())
ALLOWED_ATTRIBUTES(tag) ==
    CASE tag = "a" -> {"href", "title"}
      [] tag = "img" -> {"src", "alt", "title"}
      [] tag = "iframe" -> {"src", "width", "height"}
      [] tag = "video" -> {"src", "width", "height", "controls"}
      [] OTHER -> {}

----------------------------------------------------------------------------
(* Strings and nodes *)

Chars(s) == [k |-> "text", tag |-> "", attrs |-> <<>>, s |-> s, esc |-> 0]
StartTag(t, as) == [k |-> "start", tag |-> t, attrs |-> as, s |-> "", esc |-> 0]
EndTag(t) == [k |-> "end", tag |-> t, attrs |-> <<>>, s |-> "", esc |-> 0]
StartEndTag(t, as) == [k |-> "startend", tag |-> t, attrs |-> as, s |-> "", esc |-> 0]
Marked == [k |-> "marked", tag |-> "", attrs |-> <<>>, s |-> "", esc |-> 0]

\* &lt; &gt; for < >: one more level of entity escaping on markup characters
EscapeGroup(g) == IF g.k = "text" THEN g ELSE [g EXCEPT !.esc = @ + 1]
\* html.unescape on one group of character data
UnescapeGroup(g) == IF g.k = "text" \/ g.esc = 0 THEN g ELSE [g EXCEPT !.esc = @ - 1]

\* character data to the tokenizer: plain text, or escaped markup
IsData(g) == g.k = "text" \/ g.esc > 0

Whitespace == {" ", "\n"}

\* not data.strip(): the string has only whitespace characters
IsBlank(data) ==
    \A i \in 1..Len(data) : data[i].k = "text" /\ data[i].s \in Whitespace

\* a str node
Text(data) ==
    [isstr |-> TRUE, str |-> data, keys |-> {}, tag |-> "", attrs |-> <<>>,
     children |-> <<>>]

\* a node that lacks its "tag" key
Element_untagged(tag, attrs, children) ==
    [isstr |-> FALSE, str |-> <<>>, keys |-> {"attrs", "children"},
     tag |-> tag, attrs |-> attrs, children |-> children]

\* {"tag": tag, "attrs": attrs, "children": children}
Element(tag, attrs, children) ==
    [isstr |-> FALSE, str |-> <<>>, keys |-> {"tag", "attrs", "children"},
     tag |-> tag, attrs |-> attrs, children |-> children]

\* d[key] = value on an insertion-ordered dict
DictSet(d, key, value) ==
    IF \E i \in 1..Len(d) : d[i][1] = key
    THEN [i \in 1..Len(d) |-> IF d[i][1] = key THEN <<key, value>> ELSE d[i]]
    ELSE Append(d, <<key, value>>)

DictItems(d) == {d[i] : i \in 1..Len(d)}
DictKeys(d) == {d[i][1] : i \in 1..Len(d)}

RECURSIVE ListAt(_, _)
\* the list a path refers to
ListAt(list, path) ==
    IF path = <<>> THEN list
    ELSE ListAt(list[Head(path)].children, Tail(path))

RECURSIVE AppendAt(_, _, _)
\* list.append(node) on the list a path refers to
AppendAt(list, path, node) ==
    IF path = <<>> THEN Append(list, node)
    ELSE [list EXCEPT ![Head(path)].children = AppendAt(@, Tail(path), node)]

Last(s) == s[Len(s)]
Front(s) == SubSeq(s, 1, Len(s) - 1)

----------------------------------------------------------------------------
(* TelegraphHTMLParser as functions on the parser's fields.  P is the      *)
(* record of the fields; exc is the exception a handler raised, if any.    *)

\* TelegraphHTMLParser.__init__
NewParser ==
    [nodes |-> <<>>, current_nodes |-> <<>>, parent_stack |-> <<>>,
     tag_stack |-> <<>>, rawdata |-> <<>>, exc |-> ""]

RECURSIVE FilterAttrs(_, _, _)
\* the loop of handle_starttag over attrs, from attribute i on
FilterAttrs(tag, attrs, d) ==
    IF attrs = <<>> THEN d
    ELSE FilterAttrs(tag, Tail(attrs),
             IF Head(attrs)[1] \in ALLOWED_ATTRIBUTES(tag)
             THEN DictSet(d, Head(attrs)[1], Head(attrs)[2])
             ELSE d)

\* handle_starttag with the attribute test left out
handle_starttag_all_attrs(P, tag, attrs) ==
    IF tag \in ALLOWED_TAGS
    THEN LET node == Element(tag, attrs, <<>>)
             idx == Len(ListAt(P.nodes, P.current_nodes)) + 1
         IN [P EXCEPT !.nodes = AppendAt(P.nodes, P.current_nodes, node),
                      !.parent_stack = Append(P.parent_stack, P.current_nodes),
                      !.current_nodes = P.current_nodes \o <<idx>>,
                      !.tag_stack = Append(P.tag_stack, tag)]
    ELSE P

handle_starttag(P, tag, attrs) ==
    IF tag \in ALLOWED_TAGS
    THEN LET node == Element(tag, FilterAttrs(tag, attrs, <<>>), <<>>)
             idx == Len(ListAt(P.nodes, P.current_nodes)) + 1
         IN [P EXCEPT !.nodes = AppendAt(P.nodes, P.current_nodes, node),
                      !.parent_stack = Append(P.parent_stack, P.current_nodes),
                      !.current_nodes = P.current_nodes \o <<idx>>,
                      !.tag_stack = Append(P.tag_stack, tag)]
    ELSE P

\* handle_endtag that pops on any end tag while an element is open
handle_endtag_any(P, tag) ==
    IF P.tag_stack # <<>>
    THEN IF P.parent_stack = <<>>
         THEN [P EXCEPT !.tag_stack = Front(P.tag_stack), !.exc = "IndexError"]
         ELSE [P EXCEPT !.tag_stack = Front(P.tag_stack),
                        !.current_nodes = Last(P.parent_stack),
                        !.parent_stack = Front(P.parent_stack)]
    ELSE P

RECURSIVE handle_endtag_deep(_, _)
\* an end tag that closes the open elements down to the one it names
handle_endtag_deep(P, tag) ==
    IF \E i \in 1..Len(P.tag_stack) : P.tag_stack[i] = tag
    THEN LET Q == [P EXCEPT !.tag_stack = Front(P.tag_stack),
                            !.current_nodes = Last(P.parent_stack),
                            !.parent_stack = Front(P.parent_stack)]
         IN IF Last(P.tag_stack) = tag THEN Q ELSE handle_endtag_deep(Q, tag)
    ELSE P

handle_endtag(P, tag) ==
    IF P.tag_stack # <<>> /\ tag = Last(P.tag_stack)
    THEN IF P.parent_stack = <<>>
         THEN [P EXCEPT !.tag_stack = Front(P.tag_stack), !.exc = "IndexError"]
         ELSE [P EXCEPT !.tag_stack = Front(P.tag_stack),
                        !.current_nodes = Last(P.parent_stack),
                        !.parent_stack = Front(P.parent_stack)]
    ELSE P

handle_data(P, data) ==
    IF ~IsBlank(data)
    THEN [P EXCEPT !.nodes = AppendAt(P.nodes, P.current_nodes, Text(data))]
    ELSE P

\* HTMLParser.handle_startendtag, which the class inherits
handle_startendtag(P, tag, attrs) ==
    handle_endtag(handle_starttag(P, tag, attrs), tag)

\* get_nodes
get_nodes(P) == P.nodes

----------------------------------------------------------------------------
(* HTMLParser.feed, as far as html_to_nodes uses it: the inherited         *)
(* tokenizer (convert_charrefs on) cuts the buffer into handler calls.     *)

\* HTMLParser.CDATA_CONTENT_ELEMENTS
CDATA_CONTENT_ELEMENTS == {"script", "style"}

RECURSIVE DataRunEnd(_, _)
\* the last index of the run of character data that starts at i
DataRunEnd(buf, i) ==
    IF i < Len(buf) /\ IsData(buf[i + 1]) THEN DataRunEnd(buf, i + 1) ELSE i

RECURSIVE CloseIndex(_, _, _)
\* the index of the next </elem> at or after i, 0 when there is none
CloseIndex(buf, i, elem) ==
    IF i > Len(buf) THEN 0
    ELSE IF buf[i].k = "end" /\ buf[i].esc = 0 /\ buf[i].tag = elem THEN i
    ELSE CloseIndex(buf, i + 1, elem)

UnescapeAll(data) == [i \in 1..Len(data) |-> UnescapeGroup(data[i])]

\* a handler call the tokenizer makes; k = "raise" is the tokenizer raising
Ev(k, tag, attrs, data) == [k |-> k, tag |-> tag, attrs |-> attrs, data |-> data]

RECURSIVE goahead(_, _, _)
\* goahead(0) from position i of the buffer, cdata being self.cdata_elem:
\* the handler calls it makes, in order.  Character data up to the next
\* markup is one handle_data call, unescaped; inside script and style the
\* text up to the closing tag is one handle_data call, as it is, and without
\* a closing tag it stays in the buffer.
goahead(buf, i, cdata) ==
    IF i > Len(buf) THEN <<>>
    ELSE IF cdata # ""
    THEN LET j == CloseIndex(buf, i, cdata)
         IN IF j = 0 THEN <<>>
            ELSE (IF i < j THEN <<Ev("data", "", <<>>, SubSeq(buf, i, j - 1))>>
                  ELSE <<>>)
                 \o <<Ev("end", cdata, <<>>, <<>>)>>
                 \o goahead(buf, j + 1, "")
    ELSE LET g == buf[i]
         IN IF IsData(g)
            THEN LET j == DataRunEnd(buf, i)
                 IN <<Ev("data", "", <<>>, UnescapeAll(SubSeq(buf, i, j)))>>
                    \o goahead(buf, j + 1, "")
            ELSE IF g.k = "start"
            THEN <<Ev("start", g.tag, g.attrs, <<>>)>>
                 \o goahead(buf, i + 1,
                            IF g.tag \in CDATA_CONTENT_ELEMENTS THEN g.tag ELSE "")
            ELSE IF g.k = "startend"
            THEN <<Ev("startend", g.tag, g.attrs, <<>>)>> \o goahead(buf, i + 1, "")
            ELSE IF g.k = "end"
            THEN <<Ev("end", g.tag, <<>>, <<>>)>> \o goahead(buf, i + 1, "")
            ELSE \* <![x y]>: _markupbase.parse_marked_section raises
                 <<Ev("raise", "", <<>>, <<>>)>>

\* one handler call on the parser
Dispatch(P, e) ==
    CASE e.k = "start" -> handle_starttag(P, e.tag, e.attrs)
      [] e.k = "end" -> handle_endtag(P, e.tag)
      [] e.k = "startend" -> handle_startendtag(P, e.tag, e.attrs)
      [] e.k = "data" -> handle_data(P, e.data)
      [] OTHER -> [P EXCEPT !.exc = "AssertionError"]

RECURSIVE Run(_, _)
\* the handler calls in order, up to the first exception
Run(P, evs) ==
    IF evs = <<>> \/ P.exc # "" THEN P
    ELSE Run(Dispatch(P, Head(evs)), Tail(evs))

\* HTMLParser.feed: self.rawdata = self.rawdata + data; self.goahead(0).
\* An exception leaves self.rawdata whole: the assignment that drops the
\* consumed part is never reached.
feed(P, html) ==
    LET buf == P.rawdata \o html
        P1 == Run(P, goahead(buf, 1, ""))
    IN [P1 EXCEPT !.rawdata = IF P1.exc # "" THEN buf ELSE <<>>]

\* HTMLParser.reset, which TelegraphHTMLParser does not override: it clears
\* the tokenizer's buffer and none of the four fields __init__ sets.
reset(P) == [P EXCEPT !.rawdata = <<>>]

----------------------------------------------------------------------------
(* HTMLProcessor.  A call's outcome is [P, exc, value]: the parser         *)
(* afterwards, the exception raised ("" for none) and the value returned.  *)

Outcome(P, exc, value) == [P |-> [P EXCEPT !.exc = ""], exc |-> exc, value |-> value]

html_to_nodes(P, html) ==
    LET P1 == feed(P, html)
    IN IF P1.exc # "" THEN Outcome(P1, P1.exc, <<>>)
       ELSE Outcome(reset(P1), "", get_nodes(P1))

RECURSIVE nodes_to_html(_)
RECURSIVE node_to_html(_)
RECURSIVE ConcatHtml(_, _)
\* the loop of nodes_to_html from node i on
ConcatHtml(list, i) ==
    IF i > Len(list) THEN <<>>
    ELSE node_to_html(list[i]) \o ConcatHtml(list, i + 1)

nodes_to_html(list) == ConcatHtml(list, 1)

\* _node_to_html: a str is written out as it is, with no escaping
node_to_html(node) ==
    IF node.isstr THEN node.str
    ELSE LET tag == IF "tag" \in node.keys THEN node.tag ELSE ""
             attrs == IF "attrs" \in node.keys THEN node.attrs ELSE <<>>
             children == IF "children" \in node.keys THEN node.children ELSE <<>>
         IN <<StartTag(tag, attrs)>> \o nodes_to_html(children) \o <<EndTag(tag)>>

----------------------------------------------------------------------------
(* BeautifulSoup(html, "html.parser") and str(soup), as sanitize_html uses *)
(* them.  The soup is a node tree of the same shape; B is the builder:     *)
(* the tree, the paths and names of the open tags, the names of the void   *)
(* elements closed at their start tag, and whether the parser rejected     *)
(* the markup.                                                             *)

\* HTMLTreeBuilder.empty_element_tags, as far as the tag policy has them
VOID_ELEMENTS == {"br", "hr", "img"}

NewSoup ==
    [tree |-> <<>>, open |-> <<>>, names |-> <<>>, closed |-> <<>>, exc |-> ""]

\* the children list of the innermost open tag
SoupCurrent(B) == IF B.open = <<>> THEN <<>> ELSE Last(B.open)

RECURSIVE RemoveOne(_, _)
\* list.remove(name)
RemoveOne(list, name) ==
    IF list = <<>> THEN <<>>
    ELSE IF Head(list) = name THEN Tail(list)
    ELSE <<Head(list)>> \o RemoveOne(Tail(list), name)

InSeq(list, x) == \E i \in 1..Len(list) : list[i] = x

RECURSIVE AttrDict(_, _)
\* the attribute dict of a Tag: a repeated attribute keeps its last value
AttrDict(attrs, d) ==
    IF attrs = <<>> THEN d
    ELSE AttrDict(Tail(attrs), DictSet(d, Head(attrs)[1], Head(attrs)[2]))

\* BeautifulSoup._popToTag: close the open tags down to the innermost one
\* of that name; nothing when no tag of that name is open
SoupPopToTag(B, name) ==
    IF ~InSeq(B.names, name) THEN B
    ELSE LET k == CHOOSE i \in 1..Len(B.names) :
                      /\ B.names[i] = name
                      /\ \A j \in (i + 1)..Len(B.names) : B.names[j] # name
         IN [B EXCEPT !.open = SubSeq(B.open, 1, k - 1),
                      !.names = SubSeq(B.names, 1, k - 1)]

\* BeautifulSoup.handle_starttag: a new Tag under the innermost open tag
SoupPush(B, name, attrs) ==
    LET cur == SoupCurrent(B)
        idx == Len(ListAt(B.tree, cur)) + 1
    IN [B EXCEPT !.tree = AppendAt(B.tree, cur,
                              Element(name, AttrDict(attrs, <<>>), <<>>)),
                 !.open = Append(B.open, cur \o <<idx>>),
                 !.names = Append(B.names, name)]

\* BeautifulSoupHTMLParser.handle_endtag
SoupEndtag(B, name, check_already_closed) ==
    IF check_already_closed /\ InSeq(B.closed, name)
    THEN [B EXCEPT !.closed = RemoveOne(B.closed, name)]
    ELSE SoupPopToTag(B, name)

\* BeautifulSoupHTMLParser.handle_starttag: a void element is closed at once
SoupStarttag(B, name, attrs, handle_empty_element) ==
    LET B1 == SoupPush(B, name, attrs)
    IN IF name \in VOID_ELEMENTS /\ handle_empty_element
       THEN [SoupEndtag(B1, name, FALSE) EXCEPT !.closed = Append(B1.closed, name)]
       ELSE B1

\* BeautifulSoupHTMLParser.handle_startendtag
SoupStartendtag(B, name, attrs) ==
    SoupEndtag(SoupStarttag(B, name, attrs, FALSE), name, TRUE)

\* BeautifulSoup.endData: the text since the last tag is one string, and a
\* string of whitespace only becomes a single newline if it has one, a
\* single blank if not
SoupData(B, data) ==
    [B EXCEPT !.tree = AppendAt(B.tree, SoupCurrent(B),
                           Text(IF ~IsBlank(data) THEN data
                                ELSE IF \E i \in 1..Len(data) : data[i].s = "\n"
                                THEN <<Chars("\n")>>
                                ELSE <<Chars(" ")>>))]

SoupDispatch(B, e) ==
    CASE e.k = "start" -> SoupStarttag(B, e.tag, e.attrs, TRUE)
      [] e.k = "end" -> SoupEndtag(B, e.tag, TRUE)
      [] e.k = "startend" -> SoupStartendtag(B, e.tag, e.attrs)
      [] e.k = "data" -> SoupData(B, e.data)
      [] OTHER -> [B EXCEPT !.exc = "ParserRejectedMarkup"]

RECURSIVE SoupRun(_, _)
SoupRun(B, evs) ==
    IF evs = <<>> \/ B.exc # "" THEN B
    ELSE SoupRun(SoupDispatch(B, Head(evs)), Tail(evs))

\* BeautifulSoup(html, "html.parser")
BeautifulSoup(html) == SoupRun(NewSoup, goahead(html, 1, ""))

EscapeAll(data) == [i \in 1..Len(data) |-> EscapeGroup(data[i])]

RECURSIVE SoupDecode(_, _)
\* str(soup) from child i on: text is written with < > & as entities, a
\* void element without contents as <tag/>
SoupDecode(list, i) ==
    IF i > Len(list) THEN <<>>
    ELSE LET n == list[i]
         IN (IF n.isstr THEN EscapeAll(n.str)
             ELSE IF n.tag \in VOID_ELEMENTS /\ n.children = <<>>
             THEN <<StartEndTag(n.tag, n.attrs)>>
             ELSE <<StartTag(n.tag, n.attrs)>> \o SoupDecode(n.children, 1)
                  \o <<EndTag(n.tag)>>)
            \o SoupDecode(list, i + 1)

RECURSIVE Decompose(_, _, _)
\* for tag in soup(names): tag.decompose(), from child i on
Decompose(list, i, names) ==
    IF i > Len(list) THEN <<>>
    ELSE LET n == list[i]
         IN (IF n.isstr THEN <<n>>
             ELSE IF n.tag \in names THEN <<>>
             ELSE <<[n EXCEPT !.children = Decompose(n.children, 1, names)]>>)
            \o Decompose(list, i + 1, names)

\* a str the pipeline produced, or the exception that ended it
Str(exc, value) == [exc |-> exc, value |-> value]

\* _remove_scripts_and_styles
remove_scripts_and_styles(html) ==
    LET soup == BeautifulSoup(html)
    IN IF soup.exc # "" THEN Str(soup.exc, <<>>)
       ELSE Str("", SoupDecode(Decompose(soup.tree, 1, {"script", "style"}), 1))

RECURSIVE Words(_, _, _)
\* " ".join(html.split()) from group i on; at says where the scan is:
\* "start" before the first word, "word" right after a word, "gap" in the
\* whitespace after a word
Words(html, i, at) ==
    IF i > Len(html) THEN <<>>
    ELSE IF IsBlank(<<html[i]>>)
    THEN Words(html, i + 1, IF at = "start" THEN "start" ELSE "gap")
    ELSE (IF at = "gap" THEN <<Chars(" ")>> ELSE <<>>)
         \o <<html[i]>> \o Words(html, i + 1, "word")

\* _normalize_whitespace
normalize_whitespace(html) == Words(html, 1, "start")

\* _fix_malformed_tags
fix_malformed_tags(html) ==
    LET soup == BeautifulSoup(html)
    IN IF soup.exc # "" THEN Str(soup.exc, <<>>)
       ELSE Str("", SoupDecode(soup.tree, 1))

\* HTMLProcessor.sanitize_html
sanitize_html(P, html) ==
    LET h1 == remove_scripts_and_styles(html)
        h3 == fix_malformed_tags(normalize_whitespace(h1.value))
        out == html_to_nodes(P, h3.value)
    IN IF h1.exc # "" THEN Outcome(P, h1.exc, <<>>)
       ELSE IF h3.exc # "" THEN Outcome(P, h3.exc, <<>>)
       ELSE IF out.exc # "" THEN out
       ELSE Outcome(out.P, "", nodes_to_html(out.value))

----------------------------------------------------------------------------
(* MarkdownProcessor.  A markdown text is a sequence of blocks: a header   *)
(* of a level, a paragraph, or a block of raw HTML.  The body of a block   *)
(* is made of the character groups of HTML (text, and raw tags, which      *)
(* python-markdown lets through) and of markdown spans.                    *)

MdHeader(level, body) == [k |-> "header", level |-> level, body |-> body]
MdPara(body) == [k |-> "para", level |-> 0, body |-> body]
MdHtml(body) == [k |-> "html", level |-> 0, body |-> body]

\* **s**, _s_, ![alt](src "title") and [s](url)
MdStrong(s) == [k |-> "md_strong", tag |-> "", attrs |-> <<>>, s |-> s, esc |-> 0]
MdEm(s) == [k |-> "md_em", tag |-> "", attrs |-> <<>>, s |-> s, esc |-> 0]
MdImage(attrs) == [k |-> "md_image", tag |-> "", attrs |-> attrs, s |-> "", esc |-> 0]
MdLink(s, url) ==
    [k |-> "md_link", tag |-> "", attrs |-> <<<<"href", url>>>>, s |-> s, esc |-> 0]

\* the HTML python-markdown writes for one span; text and raw HTML stay
MdInline(g) ==
    CASE g.k = "md_strong" -> <<StartTag("strong", <<>>), Chars(g.s), EndTag("strong")>>
      [] g.k = "md_em" -> <<StartTag("em", <<>>), Chars(g.s), EndTag("em")>>
      [] g.k = "md_image" -> <<StartEndTag("img", g.attrs)>>
      [] g.k = "md_link" -> <<StartTag("a", g.attrs), Chars(g.s), EndTag("a")>>
      [] OTHER -> <<g>>

RECURSIVE FlatMap(_, _)
\* the string in which every group g is replaced by F(g)
FlatMap(F(_), html) ==
    IF html = <<>> THEN <<>>
    ELSE F(Head(html)) \o FlatMap(F, Tail(html))

HeaderTag(level) == <<"h1", "h2", "h3", "h4", "h5", "h6">>[level]

\* the HTML of one block: the toc extension gives every header an id
MdBlock(b) ==
    CASE b.k = "header" ->
            <<StartTag(HeaderTag(b.level), <<<<"id", "slug">>>>)>>
            \o FlatMap(MdInline, b.body) \o <<EndTag(HeaderTag(b.level))>>
      [] b.k = "para" ->
            <<StartTag("p", <<>>)>> \o FlatMap(MdInline, b.body) \o <<EndTag("p")>>
      [] OTHER -> b.body

RECURSIVE MdBlocks(_, _)
\* the blocks from i on, a newline between two of them
MdBlocks(text, i) ==
    IF i > Len(text) THEN <<>>
    ELSE MdBlock(text[i])
         \o (IF i < Len(text) THEN <<Chars("\n")>> ELSE <<>>)
         \o MdBlocks(text, i + 1)

\* self._processor.convert(markdown_text)
markdown(text) == MdBlocks(text, 1)

\* a tag of one of the names that a pattern <name[^>]*> matches, and one
\* that </name> matches
Opens(g, names) == g.esc = 0 /\ g.k \in {"start", "startend"} /\ g.tag \in names
Closes(g, names) == g.esc = 0 /\ g.k = "end" /\ g.tag \in names

\* <h1[^>]*> -> <h3>, </h1> -> </h3>, <h2[^>]*> -> <h4>, </h2> -> </h4>
RemapHeader(g) ==
    CASE Opens(g, {"h1"}) -> <<StartTag("h3", <<>>)>>
      [] Closes(g, {"h1"}) -> <<EndTag("h3")>>
      [] Opens(g, {"h2"}) -> <<StartTag("h4", <<>>)>>
      [] Closes(g, {"h2"}) -> <<EndTag("h4")>>
      [] OTHER -> <<g>>

\* <h[3-6][^>]*> -> <p><strong>, </h[3-6]> -> </strong></p>
DemoteHeader(g) ==
    CASE Opens(g, {"h3", "h4", "h5", "h6"}) ->
            <<StartTag("p", <<>>), StartTag("strong", <<>>)>>
      [] Closes(g, {"h3", "h4", "h5", "h6"}) ->
            <<EndTag("strong"), EndTag("p")>>
      [] OTHER -> <<g>>

\* _convert_headers: the remap of h1 and h2 first, then the demotion, which
\* runs over the string the remap wrote
convert_headers(html) == FlatMap(DemoteHeader, FlatMap(RemapHeader, html))

\* str.replace of the exact text <div class="highlight"> and of </div>
CodeBlock(g) ==
    IF g = StartTag("div", <<<<"class", "highlight">>>>) THEN <<StartTag("pre", <<>>)>>
    ELSE IF g = EndTag("div") THEN <<EndTag("pre")>>
    ELSE <<g>>

\* _optimize_code_blocks
optimize_code_blocks(html) == FlatMap(CodeBlock, html)

\* the patterns <strong>, </strong>, <em>, </em>: tags written exactly so
StrongEm(g) ==
    CASE g = StartTag("strong", <<>>) -> <<StartTag("b", <<>>)>>
      [] g = EndTag("strong") -> <<EndTag("b")>>
      [] g = StartTag("em", <<>>) -> <<StartTag("i", <<>>)>>
      [] g = EndTag("em") -> <<EndTag("i")>>
      [] OTHER -> <<g>>

\* _convert_strong_and_em
convert_strong_and_em(html) == FlatMap(StrongEm, html)

unsupported_tags ==
    <<"div", "span", "table", "tbody", "thead", "tr", "td", "th", "video">>

\* the names a pattern <tag[^>]*> matches: the tag, and the names of the
\* list that begin with it
OpenNames(tag) == IF tag = "th" THEN {"th", "thead"} ELSE {tag}

RECURSIVE StripTag(_, _, _)
\* re.sub(rf"<{tag}[^>]*>(.*?)</{tag}>", clean_tag, html, flags=re.DOTALL)
\* from group i on: the matches are found from left to right, each from a
\* start tag to the first </tag> after it, and the scan goes on behind the
\* match; what group(1) holds is not scanned again
StripTag(html, i, tag) ==
    IF i > Len(html) THEN <<>>
    ELSE LET j == CloseIndex(html, i + 1, tag)
         IN IF Opens(html[i], OpenNames(tag)) /\ j # 0
            THEN SubSeq(html, i + 1, j - 1) \o StripTag(html, j + 1, tag)
            ELSE <<html[i]>> \o StripTag(html, i + 1, tag)

RECURSIVE StripTags(_, _)
\* the loop over unsupported_tags from the k-th name on
StripTags(html, k) ==
    IF k > Len(unsupported_tags) THEN html
    ELSE StripTags(StripTag(html, 1, unsupported_tags[k]), k + 1)

\* _clean_unsupported_tags
clean_unsupported_tags(html) == StripTags(html, 1)

\* dict.get(key, default) on an insertion-ordered dict
DictGet(d, key, default) ==
    IF \E i \in 1..Len(d) : d[i][1] = key
    THEN d[CHOOSE i \in 1..Len(d) : d[i][1] = key][2]
    ELSE default

RECURSIVE TagEq(_, _)
\* c == img of bs4: a str equals a str of the same text; a Tag equals a Tag
\* of the same name, the same attributes and equal contents
TagEq(a, b) ==
    /\ a.isstr = b.isstr
    /\ IF a.isstr THEN a.str = b.str
       ELSE /\ a.tag = b.tag
            /\ DictItems(a.attrs) = DictItems(b.attrs)
            /\ Len(a.children) = Len(b.children)
            /\ \A i \in 1..Len(a.children) : TagEq(a.children[i], b.children[i])

\* the places of the img tags among the contents of a tag
ImgChildren(parent) ==
    {i \in 1..Len(parent.children) :
        ~parent.children[i].isstr /\ parent.children[i].tag = "img"}

\* is_lonely_image
is_lonely_image(parent, img) ==
    /\ parent.tag = "p"
    /\ \A i \in 1..Len(parent.children) :
          LET c == parent.children[i]
          IN TagEq(c, img) \/ (c.isstr /\ IsBlank(c.str))

\* the figure built for an img: a new img with src only, and a figcaption
\* whose string is the title, or the alt when there is no title
Figure(img) ==
    LET caption_text == DictGet(img.attrs, "title", DictGet(img.attrs, "alt", ""))
    IN Element("figure", <<>>,
               <<Element("img", <<<<"src", DictGet(img.attrs, "src", "")>>>>, <<>>),
                 Element("figcaption", <<>>,
                         IF caption_text = "" THEN <<>>
                         ELSE <<Text(<<Chars(caption_text)>>)>>)>>)

RECURSIVE HandleImagesIn(_, _)
\* the loop over soup.find_all('img'), as what it makes of the contents of
\* one tag from child i on.  A p whose img is lonely is replaced by the
\* figure; when the p holds more than one img (all equal, or they would not
\* be lonely) the loop comes to the next of them with the p already taken
\* out of the tree, and replace_with raises ValueError.
HandleImagesIn(list, i) ==
    IF i > Len(list) THEN Str("", <<>>)
    ELSE LET n == list[i]
             imgs == ImgChildren(n)
             first == n.children[CHOOSE k \in imgs : \A m \in imgs : k <= m]
             inner == HandleImagesIn(n.children, 1)
             this ==
                 IF n.isstr THEN Str("", <<n>>)
                 ELSE IF imgs # {} /\ is_lonely_image(n, first)
                 THEN IF Cardinality(imgs) = 1 THEN Str("", <<Figure(first)>>)
                      ELSE Str("ValueError", <<>>)
                 ELSE IF inner.exc # "" THEN inner
                 ELSE Str("", <<[n EXCEPT !.children = inner.value]>>)
             rest == HandleImagesIn(list, i + 1)
         IN IF this.exc # "" THEN this
            ELSE IF rest.exc # "" THEN rest
            ELSE Str("", this.value \o rest.value)

\* _handle_images: html.parser adds no body, so the result is str(soup)
handle_images(html) ==
    LET soup == BeautifulSoup(html)
        done == HandleImagesIn(soup.tree, 1)
    IN IF soup.exc # "" THEN Str(soup.exc, <<>>)
       ELSE IF done.exc # "" THEN done
       ELSE Str("", SoupDecode(done.value, 1))

\* the texts of the model that begin with http:// or https://
Urls == {"http://u"}

RECURSIVE UrlEnd(_, _)
\* \S+ : the last index of the run of text without whitespace that starts
\* at i
UrlEnd(data, i) ==
    IF i < Len(data) /\ data[i + 1].k = "text" /\ data[i + 1].s \notin Whitespace
    THEN UrlEnd(data, i + 1)
    ELSE i

RECURSIVE Joined(_, _, _)
\* the characters of the groups i to j
Joined(data, i, j) == IF i > j THEN "" ELSE data[i].s \o Joined(data, i + 1, j)

RECURSIVE LinkUrls(_, _)
\* url_pattern.sub(r'<a href="\1">\1</a>', text) from group i on.  text is
\* str(node): what was escaped in the document is markup in new_text.
LinkUrls(data, i) ==
    IF i > Len(data) THEN <<>>
    ELSE IF data[i].k = "text" /\ data[i].s \in Urls
    THEN LET j == UrlEnd(data, i)
             url == Joined(data, i, j)
         IN <<StartTag("a", <<<<"href", url>>>>), Chars(url), EndTag("a")>>
            \o LinkUrls(data, j + 1)
    ELSE <<data[i]>> \o LinkUrls(data, i + 1)

RECURSIVE AutolinkIn(_, _, _)
\* the loop over the strings of the soup, as what it makes of the contents
\* of the tag named parent from child i on: a string whose parent is no a,
\* pre or code and that has a URL is replaced by the soup of new_text
AutolinkIn(list, i, parent) ==
    IF i > Len(list) THEN Str("", <<>>)
    ELSE LET n == list[i]
             new_text == LinkUrls(n.str, 1)
             new_soup == BeautifulSoup(new_text)
             inner == AutolinkIn(n.children, 1, n.tag)
             this ==
                 IF n.isstr
                 THEN IF parent \in {"a", "pre", "code"} \/ new_text = n.str
                      THEN Str("", <<n>>)
                      ELSE IF new_soup.exc # "" THEN Str(new_soup.exc, <<>>)
                      ELSE Str("", new_soup.tree)
                 ELSE IF inner.exc # "" THEN inner
                 ELSE Str("", <<[n EXCEPT !.children = inner.value]>>)
             rest == AutolinkIn(list, i + 1, parent)
         IN IF this.exc # "" THEN this
            ELSE IF rest.exc # "" THEN rest
            ELSE Str("", this.value \o rest.value)

\* _autolink_urls
autolink_urls(html) ==
    LET soup == BeautifulSoup(html)
        done == AutolinkIn(soup.tree, 1, "[document]")
    IN IF soup.exc # "" THEN Str(soup.exc, <<>>)
       ELSE IF done.exc # "" THEN done
       ELSE Str("", SoupDecode(done.value, 1))

\* _optimize_for_telegraph
optimize_for_telegraph(html) ==
    LET coded == optimize_code_blocks(convert_headers(html))
        imaged == handle_images(coded)
        linked == autolink_urls(convert_strong_and_em(imaged.value))
    IN IF imaged.exc # "" THEN imaged
       ELSE IF linked.exc # "" THEN linked
       ELSE Str("", clean_unsupported_tags(linked.value))

\* MarkdownProcessor.convert
convert(markdown_text) == optimize_for_telegraph(markdown(markdown_text))

----------------------------------------------------------------------------
(* Bounds and input alphabets *)

\* handler events delivered to one parser in SpecParser
MaxEvents == 4
\* calls made on one HTMLProcessor in Spec
MaxCalls == 2
\* character groups in one HTML input of Spec
MaxLen == 3

Href == <<"href", "u">>
OnClick == <<"onclick", "v">>

\* the record of the parser's fields, read from the variables
Parser ==
    [nodes |-> nodes, current_nodes |-> current_nodes,
     parent_stack |-> parent_stack, tag_stack |-> tag_stack,
     rawdata |-> rawdata, exc |-> ""]

\* the variables take the fields of P
SetParser(P) ==
    /\ nodes' = P.nodes
    /\ current_nodes' = P.current_nodes
    /\ parent_stack' = P.parent_stack
    /\ tag_stack' = P.tag_stack
    /\ rawdata' = P.rawdata

NoCall == [op |-> "", input |-> <<>>, exc |-> "", value |-> <<>>]

\* the callers of the concurrent specification
Callers == {1, 2}

NoContent == [title |-> "", content |-> <<>>, content_type |-> ""]

At(op, at, attempt) == [op |-> op, at |-> at, attempt |-> attempt]

\* the arguments of an operation that takes no PageContent
Args(short_name, replace_token) ==
    [short_name |-> short_name, replace_token |-> replace_token]

NoArgs == Args("", FALSE)

\* positions at which no operation is in progress: before the first one,
\* after a return, after an exception raised before the request, after a
\* TelegraphAPIError of _make_request, after another exception that came
\* after the request was sent
Done == {"idle", "returned", "raised", "api_error", "failed"}

\* a client with the given access_token ("" for None): no page operation in
\* progress, no request sent, and no concurrent caller
InitIdle(token) ==
    /\ access_token = token
    /\ cl_pc = At("", "idle", 0)
    /\ cl_content = NoContent
    /\ processed_content = <<>>
    /\ requests = <<>>
    /\ cl_args = NoArgs
    /\ cl_exc = ""
    /\ cl_response = <<>>
    /\ slept = <<>>
    /\ c_pc = [c \in Callers |-> "idle"]
    /\ c_html = [c \in Callers |-> <<>>]
    /\ c_todo = [c \in Callers |-> <<>>]
    /\ c_result = [c \in Callers |-> <<>>]

\* BatchUploader(uploader, max_concurrent=n): asyncio.Semaphore(n) has the
\* counter n and no waiter; no upload_files call has been made
InitUploader(n) ==
    /\ max_concurrent = n
    /\ semaphore = [value |-> n, waiters |-> <<>>]
    /\ tasks = <<>>

InitParser ==
    /\ nodes = NewParser.nodes
    /\ current_nodes = NewParser.current_nodes
    /\ parent_stack = NewParser.parent_stack
    /\ tag_stack = NewParser.tag_stack
    /\ rawdata = NewParser.rawdata
    /\ fed = <<>>
    /\ call = NoCall
    /\ ncalls = 0

InitObjects == InitParser /\ InitIdle("") /\ InitUploader(5)

----------------------------------------------------------------------------
(* SpecParser: one TelegraphHTMLParser and the handler calls the tokenizer *)
(* makes on it, in any order an input can produce.                         *)

\* tags of the events: p, a and br are allowed, div is not
StartEvents ==
    {<<"p", <<Href>>>>, <<"a", <<Href, OnClick, <<"href", "w">>>>>>, <<"div", <<Href>>>>}
EndEvents == {"p", "a", "div"}
StartendEvents == {<<"br", <<>>>>}
DataEvents == {<<Chars("x")>>, <<Chars(" ")>>}

HandleStarttag(tag, attrs) ==
    /\ Len(fed) < MaxEvents
    /\ SetParser(handle_starttag(Parser, tag, attrs))
    /\ fed' = Append(fed, Ev("start", tag, attrs, <<>>))
    /\ UNCHANGED <<call, ncalls, clientVars, concVars>>

HandleEndtag(tag) ==
    /\ Len(fed) < MaxEvents
    /\ handle_endtag(Parser, tag).exc = ""
    /\ SetParser(handle_endtag(Parser, tag))
    /\ fed' = Append(fed, Ev("end", tag, <<>>, <<>>))
    /\ UNCHANGED <<call, ncalls, clientVars, concVars>>

HandleStartendtag(tag, attrs) ==
    /\ Len(fed) < MaxEvents
    /\ handle_startendtag(Parser, tag, attrs).exc = ""
    /\ SetParser(handle_startendtag(Parser, tag, attrs))
    /\ fed' = Append(fed, Ev("startend", tag, attrs, <<>>))
    /\ UNCHANGED <<call, ncalls, clientVars, concVars>>

HandleData(data) ==
    /\ Len(fed) < MaxEvents
    /\ SetParser(handle_data(Parser, data))
    /\ fed' = Append(fed, Ev("data", "", <<>>, data))
    /\ UNCHANGED <<call, ncalls, clientVars, concVars>>

\* the end of html_to_nodes: get_nodes, reset, return
ReturnNodes ==
    /\ call.op = ""
    /\ SetParser(reset(Parser))
    /\ call' = [op |-> "html_to_nodes", input |-> <<>>, exc |-> "",
                value |-> get_nodes(Parser)]
    /\ ncalls' = ncalls + 1
    /\ UNCHANGED <<fed, clientVars, concVars>>

\* the next call of html_to_nodes begins
NextCall ==
    /\ call.op # ""
    /\ ncalls < MaxCalls
    /\ call' = NoCall
    /\ UNCHANGED <<parserVars, fed, ncalls, clientVars, concVars>>

NextParser ==
    \/ \E e \in StartEvents : HandleStarttag(e[1], e[2])
    \/ \E t \in EndEvents : HandleEndtag(t)
    \/ \E e \in StartendEvents : HandleStartendtag(e[1], e[2])
    \/ \E d \in DataEvents : HandleData(d)
    \/ ReturnNodes
    \/ NextCall

SpecParser == InitObjects /\ [][NextParser]_vars

----------------------------------------------------------------------------
(* Spec: callers of html_to_nodes on one HTMLProcessor, one call after the *)
(* other.                                                                  *)

\* the character groups the HTML inputs are made of
Groups ==
    {Chars("x"), StartTag("p", <<>>), EndTag("p"), StartTag("br", <<>>),
     StartTag("script", <<>>), EndTag("script"), Marked}

RECURSIVE Strings(_, _)
\* the strings of n groups out of the set G
Strings(G, n) ==
    IF n = 0 THEN {<<>>}
    ELSE {Append(h, g) : h \in Strings(G, n - 1), g \in G}

HtmlInputs == UNION {Strings(Groups, n) : n \in 0..MaxLen}

Call(op, input, out) ==
    [op |-> op, input |-> input, exc |-> out.exc, value |-> out.value]

HtmlToNodes(html) ==
    /\ ncalls < MaxCalls
    /\ LET out == html_to_nodes(Parser, html)
       IN /\ SetParser(out.P)
          /\ call' = Call("html_to_nodes", html, out)
    /\ ncalls' = ncalls + 1
    /\ UNCHANGED <<fed, clientVars, concVars>>

Next == \E html \in HtmlInputs : HtmlToNodes(html)

Spec == InitObjects /\ [][Next]_vars

----------------------------------------------------------------------------
(* SpecSanitize: callers of sanitize_html on one HTMLProcessor, one call   *)
(* after the other.                                                        *)

SanitizeGroups ==
    {Chars("x"), Chars(" "), StartTag("p", <<>>), EndTag("p"),
     StartTag("script", <<>>), EndTag("script"),
     EscapeGroup(StartTag("script", <<>>))}

SanitizeInputs == UNION {Strings(SanitizeGroups, n) : n \in 0..MaxLen}

SanitizeHtml(html) ==
    /\ ncalls < MaxCalls
    /\ LET out == sanitize_html(Parser, html)
       IN /\ SetParser(out.P)
          /\ call' = Call("sanitize_html", html, out)
    /\ ncalls' = ncalls + 1
    /\ UNCHANGED <<fed, clientVars, concVars>>

NextSanitize == \E html \in SanitizeInputs : SanitizeHtml(html)

SpecSanitize == InitObjects /\ [][NextSanitize]_vars

----------------------------------------------------------------------------
(* ContentValidator.validate_nodes, and SpecValidate: validate_nodes       *)
(* applied to a node tree the caller built.                                *)

RECURSIVE validate_nodes(_)
RECURSIVE validate_single_node(_)

\* a validator that looks for "tag" on the top-level nodes only
validate_single_node_shallow(node) ==
    IF node.isstr THEN TRUE
    ELSE "tag" \in node.keys

\* _validate_single_node
validate_single_node(node) ==
    IF node.isstr THEN TRUE
    ELSE IF "tag" \notin node.keys THEN FALSE
    ELSE IF "children" \in node.keys THEN validate_nodes(node.children)
    ELSE TRUE

\* all(self._validate_single_node(node) for node in nodes)
validate_nodes(list) == \A i \in 1..Len(list) : validate_single_node(list[i])

\* nodes in one caller-built tree
MaxNodes == 3

\* a dict with the given keys
Dict(keys, tag, attrs) ==
    [isstr |-> FALSE, str |-> <<>>, keys |-> keys, tag |-> tag, attrs |-> attrs,
     children |-> <<>>]

\* dicts a caller may write: with and without "tag" and "children", with an
\* allowed and a disallowed tag, with an allowed and a disallowed attribute
Dicts ==
    {Dict({"tag", "attrs", "children"}, "p", <<>>),
     Dict({"tag"}, "p", <<>>),
     Dict({"attrs", "children"}, "", <<>>),
     Dict({"tag", "attrs", "children"}, "div", <<>>),
     Dict({"tag", "attrs", "children"}, "a", <<Href, OnClick>>)}

RECURSIVE Forests(_)
\* the node lists with n nodes in all: the first node, with k nodes below
\* it, and the list of its following siblings
Forests(n) ==
    IF n = 0 THEN {<<>>}
    ELSE UNION {
        {<<first>> \o rest :
            first \in (IF k = 0 THEN Dicts \cup {Text(<<Chars("x")>>)} ELSE {})
                      \cup {[d EXCEPT !.children = c] :
                               d \in {e \in Dicts : "children" \in e.keys},
                               c \in (IF k = 0 THEN {} ELSE Forests(k))},
            rest \in Forests(n - 1 - k)} : k \in 0..(n - 1)}

Trees == UNION {Forests(n) : n \in 0..MaxNodes}

InitValidate ==
    /\ nodes = NewParser.nodes
    /\ current_nodes = NewParser.current_nodes
    /\ parent_stack = NewParser.parent_stack
    /\ tag_stack = NewParser.tag_stack
    /\ rawdata = NewParser.rawdata
    /\ fed = <<>>
    /\ ncalls = 0
    /\ InitIdle("")
    /\ InitUploader(5)
    /\ call \in {[op |-> "", input |-> t, exc |-> "", value |-> <<>>] : t \in Trees}

ValidateNodes ==
    /\ call.op = ""
    /\ call' = [call EXCEPT !.op = "validate_nodes",
                            !.value = validate_nodes(call.input)]
    /\ ncalls' = ncalls + 1
    /\ UNCHANGED <<parserVars, fed, clientVars, concVars>>

NextValidate == ValidateNodes

SpecValidate == InitValidate /\ [][NextValidate]_vars

----------------------------------------------------------------------------
(* ContentValidator.validate_content_size, and SpecSize: the size check    *)
(* applied to a string the caller built.                                   *)

\* MAX_CONTENT_SIZE: ClassVar[int] = 64 * 1024
MAX_CONTENT_SIZE == 64 * 1024

\* A str of any length is a sequence of runs: n characters in a row that
\* UTF-8 encodes in w bytes each (1: up to U+007F, 2: up to U+07FF, 3: up to
\* U+FFFF, 4: above).  w = 0 is a lone surrogate, which a Python str can
\* hold and UTF-8 cannot encode.
CharRun(w, n) == [w |-> w, n |-> n]

RECURSIVE Sum(_)
Sum(ns) == IF ns = <<>> THEN 0 ELSE ns[1] + Sum(Tail(ns))

\* len(content): the number of characters
str_len(content) == Sum([i \in 1..Len(content) |-> content[i].n])

\* content.encode("utf-8"): the bytes of each run in order, UnicodeEncodeError
\* for a surrogate
encode(content) ==
    IF \E i \in 1..Len(content) : content[i].w = 0 /\ content[i].n > 0
    THEN Str("UnicodeEncodeError", <<>>)
    ELSE Str("", [i \in 1..Len(content) |-> content[i].w * content[i].n])

\* len(b) of a bytes object
bytes_len(b) == Sum(b)

\* a size check that counts characters
validate_content_size_chars(content) ==
    Str("", str_len(content) <= MAX_CONTENT_SIZE)

\* validate_content_size
validate_content_size(content) ==
    LET b == encode(content)
    IN IF b.exc # "" THEN Str(b.exc, FALSE)
       ELSE Str("", bytes_len(b.value) <= MAX_CONTENT_SIZE)

\* runs in one string
MaxRuns == 2

\* run lengths around the limit and around its half and its third
RunLengths == {1, 21845, 21846, 32768, 65535, 65536, 65537}

RECURSIVE SizeStrings(_)
SizeStrings(n) ==
    IF n = 0 THEN {<<>>}
    ELSE SizeStrings(n - 1)
         \cup {Append(c, CharRun(w, k)) :
                  c \in SizeStrings(n - 1), w \in 0..4, k \in RunLengths}

InitSize ==
    /\ nodes = NewParser.nodes
    /\ current_nodes = NewParser.current_nodes
    /\ parent_stack = NewParser.parent_stack
    /\ tag_stack = NewParser.tag_stack
    /\ rawdata = NewParser.rawdata
    /\ fed = <<>>
    /\ ncalls = 0
    /\ InitIdle("")
    /\ InitUploader(5)
    /\ call \in {[op |-> "", input |-> c, exc |-> "", value |-> <<>>] :
                    c \in SizeStrings(MaxRuns)}

ValidateContentSize ==
    /\ call.op = ""
    /\ LET out == validate_content_size(call.input)
       IN call' = [call EXCEPT !.op = "validate_content_size",
                               !.exc = out.exc, !.value = out.value]
    /\ ncalls' = ncalls + 1
    /\ UNCHANGED <<parserVars, fed, clientVars, concVars>>

NextSize == ValidateContentSize

SpecSize == InitSize /\ [][NextSize]_vars

----------------------------------------------------------------------------
(* ContentValidator.html_to_nodes and TelegraphClient's page operations.   *)
(* SpecClient: create_page and edit_page called one after the other on one *)
(* client, whose ContentValidator owns the HTMLProcessor and its parser.   *)

\* ContentValidator.html_to_nodes: the processor's conversion, then
\* validate_nodes on its result
cv_html_to_nodes(P, html) ==
    LET out == html_to_nodes(P, html)
    IN IF out.exc # "" THEN out
       ELSE IF ~validate_nodes(out.value) THEN Outcome(out.P, "ValueError", <<>>)
       ELSE out

\* retries of one client's _make_request
max_retries == 1

\* HTML a caller passes as PageContent.content: empty, text, an element
\* left open, an element closed, and a marked section the tokenizer rejects
ContentHtml ==
    {<<>>, <<Chars("x")>>, <<StartTag("p", <<>>), Chars("x")>>,
     <<StartTag("p", <<>>), Chars("x"), EndTag("p")>>, <<Marked, Chars("x")>>}

\* node trees a caller passes as PageContent.content: the lists of one node,
\* the empty list, and a node without "tag" below an element
ContentTrees ==
    Forests(0) \cup Forests(1)
    \cup {<<[Dict({"tag", "attrs", "children"}, "p", <<>>) EXCEPT
                !.children = <<Dict({"attrs", "children"}, "", <<>>)>>]>>}

PageContent(title, content, content_type) ==
    [title |-> title, content |-> content, content_type |-> content_type]

\* PageContent.MAX_TITLE_LENGTH
MAX_TITLE_LENGTH == 256

RECURSIVE Repeat(_, _)
\* s * n
Repeat(s, n) ==
    IF n = 0 THEN ""
    ELSE IF n % 2 = 1 THEN s \o Repeat(s, n - 1)
    ELSE LET half == Repeat(s, n \div 2) IN half \o half

\* titles: empty, one character, the longest allowed and one more
Titles == {"", "t", Repeat("t", MAX_TITLE_LENGTH), Repeat("t", MAX_TITLE_LENGTH + 1)}

\* the content types _process_content knows
CONTENT_TYPES == {"html", "markdown", "nodes"}

\* PageContent.__post_init__: the exception it raises, "" for none
post_init(self) ==
    IF ~(1 <= Len(self.title) /\ Len(self.title) <= MAX_TITLE_LENGTH)
    THEN "ValueError"
    ELSE IF self.content_type \notin CONTENT_TYPES THEN "ValueError"
    ELSE ""

\* the contents a caller writes: HTML, markdown, a node tree, and a content
\* whose content_type is none of the three
PageContents ==
    {PageContent("t", h, "html") : h \in ContentHtml}
    \cup {PageContent("t", <<MdHeader(1, <<Chars("x")>>)>>, "markdown"),
          PageContent("t", <<MdPara(<<MdImage(<<<<"src", "u">>>>), MdImage(<<<<"src", "u">>>>)>>)>>, "markdown")}
    \cup {PageContent("t", t, "nodes") : t \in ContentTrees}
    \cup {PageContent("t", <<Chars("x")>>, "text")}

\* the arguments a caller gives to the constructor of PageContent
PageContentArgs ==
    PageContents
    \cup {PageContent(title, <<Chars("x")>>, type) :
             title \in Titles, type \in {"html", "text"}}

\* an object that is no PageContent and has its attributes: __post_init__
\* never saw it
DuckTyped == {PageContent("t", <<Chars("x")>>, "text")}

\* _process_content without the check of a caller-built tree
process_content_unchecked(P, content) ==
    CASE content.content_type = "markdown" ->
            {LET html == convert(content.content)
             IN IF html.exc # "" THEN Outcome(P, html.exc, <<>>)
                ELSE cv_html_to_nodes(P, html.value)}
      [] content.content_type = "html" ->
            {cv_html_to_nodes(P, content.content)}
      [] content.content_type = "nodes" ->
            {Outcome(P, "", content.content)}
      [] OTHER -> {Outcome(P, "ValueError", <<>>)}

\* _process_content that takes a content of any other type for HTML
process_content_any_type(P, content) ==
    CASE content.content_type = "markdown" ->
            {LET html == convert(content.content)
             IN IF html.exc # "" THEN Outcome(P, html.exc, <<>>)
                ELSE cv_html_to_nodes(P, html.value)}
      [] content.content_type = "nodes" ->
            {IF validate_nodes(content.content)
             THEN Outcome(P, "", content.content)
             ELSE Outcome(P, "ValidationError", <<>>)}
      [] OTHER -> {cv_html_to_nodes(P, content.content)}

\* _process_content that writes a caller-built tree out and parses it again
process_content_reparsed(P, content) ==
    CASE content.content_type = "markdown" ->
            {LET html == convert(content.content)
             IN IF html.exc # "" THEN Outcome(P, html.exc, <<>>)
                ELSE cv_html_to_nodes(P, html.value)}
      [] content.content_type = "html" ->
            {cv_html_to_nodes(P, content.content)}
      [] content.content_type = "nodes" ->
            {IF validate_nodes(content.content)
             THEN cv_html_to_nodes(P, nodes_to_html(content.content))
             ELSE Outcome(P, "ValidationError", <<>>)}
      [] OTHER -> {Outcome(P, "ValueError", <<>>)}

\* TelegraphClient._process_content: the outcomes the call may have
process_content(P, content) ==
    CASE content.content_type = "markdown" ->
            {LET html == convert(content.content)
             IN IF html.exc # "" THEN Outcome(P, html.exc, <<>>)
                ELSE cv_html_to_nodes(P, html.value)}
      [] content.content_type = "html" ->
            {cv_html_to_nodes(P, content.content)}
      [] content.content_type = "nodes" ->
            {IF validate_nodes(content.content)
             THEN Outcome(P, "", content.content)
             ELSE Outcome(P, "ValidationError", <<>>)}
      [] OTHER -> {Outcome(P, "ValueError", <<>>)}

\* json.dumps of a node tree, kept as the tree the text encodes
dumps(tree) == [json |-> tree]
loads(text) == text.json

\* a client built with or without an access token
InitClient ==
    InitParser /\ InitUploader(5) /\ \E token \in {"", "token"} : InitIdle(token)

\* PageContent(title, content, content_type=...): the dataclass's __init__
\* and __post_init__, before a page operation is called; the caller builds
\* one object between two operations
NewPageContent(self) ==
    /\ cl_pc.at \in Done
    /\ ncalls < MaxCalls
    /\ call.op # "PageContent"
    /\ call' = [op |-> "PageContent", input |-> self, exc |-> post_init(self),
                value |-> IF post_init(self) = "" THEN self ELSE NoContent]
    /\ UNCHANGED <<parserVars, fed, ncalls, clientVars, concVars>>

\* what a caller can pass to a page operation: the PageContent it built, or
\* an object of its own
Passable ==
    (IF call.op = "PageContent" /\ call.exc = "" THEN {call.value} ELSE {})
    \cup DuckTyped

\* create_page up to its first await
CreatePage(content) ==
    /\ cl_pc.at \in Done
    /\ ncalls < MaxCalls
    /\ ncalls' = ncalls + 1
    /\ cl_pc' = At("create_page", "process", 0)
    /\ cl_content' = content
    /\ processed_content' = <<>>
    /\ cl_args' = NoArgs
    /\ cl_exc' = ""
    /\ cl_response' = <<>>
    /\ slept' = <<>>
    /\ call' = NoCall
    /\ UNCHANGED <<parserVars, fed, access_token, requests, concVars>>

\* edit_page up to its first await: TelegraphError without an access token
EditPage(content) ==
    /\ cl_pc.at \in Done
    /\ ncalls < MaxCalls
    /\ ncalls' = ncalls + 1
    /\ cl_pc' = At("edit_page", IF access_token = "" THEN "raised" ELSE "process", 0)
    /\ cl_content' = content
    /\ processed_content' = <<>>
    /\ cl_args' = NoArgs
    /\ cl_exc' = IF access_token = "" THEN "TelegraphError" ELSE ""
    /\ cl_response' = <<>>
    /\ slept' = <<>>
    /\ call' = NoCall
    /\ UNCHANGED <<parserVars, fed, access_token, requests, concVars>>

\* processed_content = await self._process_content(content)
ProcessContent ==
    /\ cl_pc.at = "process"
    /\ \E out \in process_content(Parser, cl_content) :
          /\ SetParser(out.P)
          /\ cl_exc' = out.exc
          /\ IF out.exc # ""
             THEN /\ cl_pc' = [cl_pc EXCEPT !.at = "raised"]
                  /\ UNCHANGED processed_content
             ELSE /\ cl_pc' = [cl_pc EXCEPT !.at = "request"]
                  /\ processed_content' = out.value
    /\ UNCHANGED <<histVars, access_token, cl_content, requests, cl_args,
                   cl_response, slept, concVars>>

\* the endpoint each operation names in its call of _make_request
Endpoint(op) ==
    CASE op = "create_page" -> "createPage"
      [] op = "edit_page" -> "editPage"
      [] op = "create_account" -> "createAccount"
      [] op = "get_account_info" -> "getAccountInfo"
      [] op = "edit_account_info" -> "editAccountInfo"
      [] op = "get_page_list" -> "getPageList"
      [] OTHER -> "revokeAccessToken"

\* the keys of the result each operation reads with result[...]
RequiredKeys(op) ==
    CASE op \in {"create_page", "edit_page"} -> {"path", "url", "title"}
      [] op = "get_page_list" -> {"pages"}
      [] OTHER -> {"short_name"}

\* The JSON of an answer: {"ok": true, "result": {...}} or {"ok": false,
\* "error": ...}.  A result is the set of its keys and the value of its
\* "access_token" ("" when it has none); an error text is the sequence of its
\* parts between underscores.
Result(keys, token) == [keys |-> keys, access_token |-> token]

Json(ok, result, error) ==
    [kind |-> "json", ok |-> ok, result |-> result, error |-> error]

\* session.post raises aiohttp.ClientError
ClientError == [kind |-> "ClientError", ok |-> FALSE, result |-> Result({}, ""),
                error |-> <<>>]

AllKeys == {"path", "url", "title", "pages", "short_name", "access_token"}

\* the answers of the API to one POST: a result with and without a token, a
\* result without the keys the operation reads, an error, a flood-wait error
\* with and without a number of seconds, and no answer
Responses ==
    {Json(TRUE, Result(AllKeys, "new"), <<>>),
     Json(TRUE, Result(AllKeys \ {"access_token"}, ""), <<>>),
     Json(TRUE, Result({}, ""), <<>>),
     Json(FALSE, Result({}, ""), <<"PAGE", "NOT", "FOUND">>),
     Json(FALSE, Result({}, ""), <<"FLOOD", "WAIT", "3">>),
     Json(FALSE, Result({}, ""), <<"FLOOD", "WAIT">>),
     ClientError}

\* int(s) for the texts of the model: the decimal numerals, ValueError for
\* anything else
Numerals == ("0" :> 0) @@ ("1" :> 1) @@ ("2" :> 2) @@ ("3" :> 3)

int(s) ==
    IF s \in DOMAIN Numerals THEN Str("", Numerals[s]) ELSE Str("ValueError", 0)

\* "FLOOD_WAIT" in str(error)
FloodWait(error) ==
    \E i \in 1..(Len(error) - 1) : error[i] = "FLOOD" /\ error[i + 1] = "WAIT"

RECURSIVE Pow2(_)
\* 2**attempt
Pow2(n) == IF n = 0 THEN 1 ELSE 2 * Pow2(n - 1)

\* what one turn of the loop ends in: "return", "raise" (with the
\* exception) or "continue" (after the sleep)
Turn(next, exc, sleep) == [next |-> next, exc |-> exc, sleep |-> sleep]

\* a loop that tries again after every failure while attempts remain
request_turn_retry_all(response, attempt) ==
    IF response.kind = "json" /\ response.ok THEN Turn("return", "", <<>>)
    ELSE IF attempt < max_retries THEN Turn("continue", "", <<Pow2(attempt)>>)
    ELSE Turn("raise", "TelegraphAPIError", <<>>)

\* the body of "for attempt in range(self._max_retries + 1)" for one answer
request_turn(response, attempt) ==
    IF response.kind = "ClientError"
    THEN IF attempt = max_retries
         THEN Turn("raise", "TelegraphAPIError", <<>>)
         ELSE Turn("continue", "", <<Pow2(attempt)>>)
    ELSE IF response.ok THEN Turn("return", "", <<>>)
    ELSE IF FloodWait(response.error) /\ attempt < max_retries
    THEN LET wait_time == int(Last(response.error))
         IN IF wait_time.exc # "" THEN Turn("raise", wait_time.exc, <<>>)
            ELSE Turn("continue", "", <<wait_time.value>>)
    ELSE Turn("raise", "TelegraphAPIError", <<>>)

\* the data of the request of the operation in progress
RequestData ==
    IF cl_pc.op \in {"create_page", "edit_page"}
    THEN [endpoint |-> Endpoint(cl_pc.op), call |-> ncalls,
          title |-> cl_content.title, content |-> dumps(processed_content)]
    ELSE [endpoint |-> Endpoint(cl_pc.op), call |-> ncalls,
          short_name |-> cl_args.short_name]

\* a create_account that takes over every token the answer carries
token_after_always(op, args, result, token) ==
    CASE op = "create_account" /\ result.access_token # "" -> result.access_token
      [] op = "revoke_access_token" -> result.access_token
      [] OTHER -> token

\* self._access_token after the lines that follow the await of _make_request
token_after(op, args, result, token) ==
    CASE op = "create_account" /\ args.replace_token /\ result.access_token # ""
           -> result.access_token
      [] op = "revoke_access_token" -> result.access_token
      [] OTHER -> token

\* one turn of the loop of _make_request: the POST of the data and what the
\* answer leads to; after a return, the rest of the operation that called
\* it, which reads the result and may set the token
MakeRequest(response) ==
    /\ cl_pc.at = "request"
    /\ requests' = Append(requests, RequestData)
    /\ LET turn == request_turn(response, cl_pc.attempt)
       IN /\ cl_response' = response
          /\ slept' = turn.sleep
          /\ CASE turn.next = "continue" ->
                    /\ cl_pc' = [cl_pc EXCEPT !.attempt = @ + 1]
                    /\ UNCHANGED <<access_token, cl_exc>>
               [] turn.next = "raise" ->
                    /\ cl_pc' = [cl_pc EXCEPT !.at =
                                    IF turn.exc = "TelegraphAPIError"
                                    THEN "api_error" ELSE "failed"]
                    /\ cl_exc' = turn.exc
                    /\ UNCHANGED access_token
               [] OTHER ->
                    IF RequiredKeys(cl_pc.op) \subseteq response.result.keys
                    THEN /\ cl_pc' = [cl_pc EXCEPT !.at = "returned"]
                         /\ access_token' = token_after(cl_pc.op, cl_args,
                                                        response.result, access_token)
                         /\ UNCHANGED cl_exc
                    ELSE /\ cl_pc' = [cl_pc EXCEPT !.at = "failed"]
                         /\ cl_exc' = "KeyError"
                         /\ UNCHANGED access_token
    /\ UNCHANGED <<parserVars, histVars, cl_content, processed_content, cl_args,
                   concVars>>

\* the answers the page operations get: a result, an error, a flood-wait
\* error and no answer
PageResponses ==
    {Json(TRUE, Result(AllKeys, "new"), <<>>),
     Json(FALSE, Result({}, ""), <<"PAGE", "NOT", "FOUND">>),
     Json(FALSE, Result({}, ""), <<"FLOOD", "WAIT", "3">>),
     ClientError}

NextClient ==
    \/ \E self \in PageContentArgs : NewPageContent(self)
    \/ \E content \in Passable : CreatePage(content)
    \/ \E content \in Passable : EditPage(content)
    \/ ProcessContent
    \/ \E response \in PageResponses : MakeRequest(response)

SpecClient == InitClient /\ [][NextClient]_vars

----------------------------------------------------------------------------
(* The account operations of TelegraphClient, and SpecAccount: the         *)
(* operations that need a token, and create_account, called one after the  *)
(* other on one client, with every answer the API can give to a request.   *)

SHORT_NAME_MAX_LENGTH == 32

\* short names of no, one, 32 and 33 characters
ShortNames ==
    {"", "s", Repeat("s", SHORT_NAME_MAX_LENGTH),
     Repeat("s", SHORT_NAME_MAX_LENGTH + 1)}

\* the page edit_page is called with: a tree with no node
AccountPages == {PageContent("t", <<>>, "nodes")}

\* create_account up to its await: ValidationError for a short_name that is
\* not 1 to 32 characters long
CreateAccount(short_name, replace_token) ==
    /\ cl_pc.at \in Done
    /\ ncalls < MaxCalls
    /\ ncalls' = ncalls + 1
    /\ cl_pc' = At("create_account", IF 1 <= Len(short_name) /\ Len(short_name) <= SHORT_NAME_MAX_LENGTH
                                     THEN "request" ELSE "raised", 0)
    /\ cl_exc' = IF 1 <= Len(short_name) /\ Len(short_name) <= SHORT_NAME_MAX_LENGTH
                 THEN "" ELSE "ValidationError"
    /\ cl_args' = Args(short_name, replace_token)
    /\ cl_content' = NoContent
    /\ processed_content' = <<>>
    /\ cl_response' = <<>>
    /\ slept' = <<>>
    /\ call' = NoCall
    /\ UNCHANGED <<parserVars, fed, access_token, requests, concVars>>

\* get_account_info up to its await: TelegraphError without an access token
GetAccountInfo ==
    /\ cl_pc.at \in Done
    /\ ncalls < MaxCalls
    /\ ncalls' = ncalls + 1
    /\ cl_pc' = At("get_account_info", IF access_token = "" THEN "raised" ELSE "request", 0)
    /\ cl_exc' = IF access_token = "" THEN "TelegraphError" ELSE ""
    /\ cl_args' = NoArgs
    /\ cl_content' = NoContent
    /\ processed_content' = <<>>
    /\ cl_response' = <<>>
    /\ slept' = <<>>
    /\ call' = NoCall
    /\ UNCHANGED <<parserVars, fed, access_token, requests, concVars>>

\* edit_account_info up to its await: TelegraphError without an access
\* token, ValidationError when no field is given
EditAccountInfo(short_name) ==
    /\ cl_pc.at \in Done
    /\ ncalls < MaxCalls
    /\ ncalls' = ncalls + 1
    /\ cl_pc' = At("edit_account_info", IF access_token = "" \/ short_name = ""
                                        THEN "raised" ELSE "request", 0)
    /\ cl_exc' = IF access_token = "" THEN "TelegraphError"
                 ELSE IF short_name = "" THEN "ValidationError" ELSE ""
    /\ cl_args' = Args(short_name, FALSE)
    /\ cl_content' = NoContent
    /\ processed_content' = <<>>
    /\ cl_response' = <<>>
    /\ slept' = <<>>
    /\ call' = NoCall
    /\ UNCHANGED <<parserVars, fed, access_token, requests, concVars>>

\* get_page_list up to its await: TelegraphError without an access token
GetPageList ==
    /\ cl_pc.at \in Done
    /\ ncalls < MaxCalls
    /\ ncalls' = ncalls + 1
    /\ cl_pc' = At("get_page_list", IF access_token = "" THEN "raised" ELSE "request", 0)
    /\ cl_exc' = IF access_token = "" THEN "TelegraphError" ELSE ""
    /\ cl_args' = NoArgs
    /\ cl_content' = NoContent
    /\ processed_content' = <<>>
    /\ cl_response' = <<>>
    /\ slept' = <<>>
    /\ call' = NoCall
    /\ UNCHANGED <<parserVars, fed, access_token, requests, concVars>>

\* a revoke_access_token that goes to its request without a look at the token
RevokeAccessToken_unchecked ==
    /\ cl_pc.at \in Done
    /\ ncalls < MaxCalls
    /\ ncalls' = ncalls + 1
    /\ cl_pc' = At("revoke_access_token", "request", 0)
    /\ cl_exc' = ""
    /\ cl_args' = NoArgs
    /\ cl_content' = NoContent
    /\ processed_content' = <<>>
    /\ cl_response' = <<>>
    /\ slept' = <<>>
    /\ call' = NoCall
    /\ UNCHANGED <<parserVars, fed, access_token, requests, concVars>>

\* revoke_access_token up to its await: TelegraphError without an access
\* token
RevokeAccessToken ==
    /\ cl_pc.at \in Done
    /\ ncalls < MaxCalls
    /\ ncalls' = ncalls + 1
    /\ cl_pc' = At("revoke_access_token", IF access_token = "" THEN "raised" ELSE "request", 0)
    /\ cl_exc' = IF access_token = "" THEN "TelegraphError" ELSE ""
    /\ cl_args' = NoArgs
    /\ cl_content' = NoContent
    /\ processed_content' = <<>>
    /\ cl_response' = <<>>
    /\ slept' = <<>>
    /\ call' = NoCall
    /\ UNCHANGED <<parserVars, fed, access_token, requests, concVars>>

NextAccount ==
    \/ \E short_name \in ShortNames, replace_token \in BOOLEAN :
          CreateAccount(short_name, replace_token)
    \/ GetAccountInfo
    \/ \E short_name \in {"", "s"} : EditAccountInfo(short_name)
    \/ GetPageList
    \/ RevokeAccessToken
    \/ \E content \in AccountPages : EditPage(content)
    \/ ProcessContent
    \/ \E response \in Responses : MakeRequest(response)

SpecAccount == InitClient /\ [][NextAccount]_vars

----------------------------------------------------------------------------
(* BatchUploader, and SpecUpload: one upload_files call on an uploader     *)
(* built with any max_concurrent, its tasks scheduled in any order, each   *)
(* upload ending at any time, and the call cancelled at any time.          *)
(* asyncio.Semaphore is the one of CPython 3.11.  A task is the record of  *)
(* its position ("new", "waiting" in acquire, "uploading", "done"), of the *)
(* future it waits for ("none", "pending", "result", "cancelled") and of a *)
(* cancellation not yet delivered; the futures in _waiters are named by    *)
(* their tasks.                                                            *)

\* files in one call
MaxFiles == 3

\* the largest max_concurrent
MaxConcurrent == 2

Task(pc, fut, must_cancel) == [pc |-> pc, fut |-> fut, must_cancel |-> must_cancel]

\* a semaphore whose locked() says False
locked_never(sem, ts) == FALSE

\* Semaphore.locked: self._value == 0 or any(not w.cancelled() for w in
\* self._waiters)
locked(sem, ts) ==
    \/ sem.value = 0
    \/ \E i \in 1..Len(sem.waiters) : ts[sem.waiters[i]].fut # "cancelled"

\* the first future in _waiters that is not done, 0 when there is none
FirstPending(sem, ts) ==
    IF \E i \in 1..Len(sem.waiters) : ts[sem.waiters[i]].fut = "pending"
    THEN sem.waiters[CHOOSE i \in 1..Len(sem.waiters) :
                        /\ ts[sem.waiters[i]].fut = "pending"
                        /\ \A j \in 1..(i - 1) : ts[sem.waiters[j]].fut # "pending"]
    ELSE 0

\* Semaphore._wake_up_next: the semaphore and the tasks after it
wake_up_next(sem, ts) ==
    LET t == FirstPending(sem, ts)
    IN IF t = 0 THEN [sem |-> sem, ts |-> ts]
       ELSE [sem |-> [sem EXCEPT !.value = @ - 1],
             ts |-> [ts EXCEPT ![t].fut = "result"]]

\* Semaphore.release
release(sem, ts) == wake_up_next([sem EXCEPT !.value = @ + 1], ts)

\* self._waiters.remove(fut)
remove(waiters, t) == SelectSeq(waiters, LAMBDA w : w # t)

\* uploads in progress: the tasks inside self._uploader.upload_file
Uploading == {t \in 1..Len(tasks) : tasks[t].pc = "uploading"}

\* upload_files: one task per file, handed to asyncio.gather
UploadFiles(n) ==
    /\ tasks = <<>>
    /\ n > 0
    /\ tasks' = [t \in 1..n |-> Task("new", "none", FALSE)]
    /\ UNCHANGED <<parserVars, histVars, clientVars, c_pc, c_html, c_todo,
                   c_result, max_concurrent, semaphore>>

\* the first step of a task: "async with self._semaphore" calls acquire,
\* which takes the semaphore or appends a future to _waiters and waits; a
\* task cancelled before its first step does not run
Acquire(t) ==
    /\ t \in 1..Len(tasks)
    /\ tasks[t].pc = "new"
    /\ IF tasks[t].must_cancel
       THEN /\ tasks' = [tasks EXCEPT ![t] = Task("done", "none", FALSE)]
            /\ UNCHANGED semaphore
       ELSE IF ~locked(semaphore, tasks)
       THEN /\ semaphore' = [semaphore EXCEPT !.value = @ - 1]
            /\ tasks' = [tasks EXCEPT ![t].pc = "uploading"]
       ELSE /\ semaphore' = [semaphore EXCEPT !.waiters = Append(@, t)]
            /\ tasks' = [tasks EXCEPT ![t] = Task("waiting", "pending", FALSE)]
    /\ UNCHANGED <<parserVars, histVars, clientVars, c_pc, c_html, c_todo,
                   c_result, max_concurrent>>

\* acquire after "await fut": the future is taken out of _waiters; with its
\* result the task goes on, waking the next waiter if the counter allows;
\* with CancelledError it gives back what a set result had taken
Resume(t) ==
    /\ t \in 1..Len(tasks)
    /\ tasks[t].pc = "waiting"
    /\ tasks[t].fut # "pending" \/ tasks[t].must_cancel
    /\ LET sem == [semaphore EXCEPT !.waiters = remove(@, t)]
       IN IF tasks[t].fut = "cancelled" \/ tasks[t].must_cancel
          THEN LET out == IF tasks[t].fut # "cancelled"
                          THEN release(sem, tasks)
                          ELSE [sem |-> sem, ts |-> tasks]
               IN /\ semaphore' = out.sem
                  /\ tasks' = [out.ts EXCEPT ![t] = Task("done", "none", FALSE)]
          ELSE LET out == IF sem.value > 0 THEN wake_up_next(sem, tasks)
                          ELSE [sem |-> sem, ts |-> tasks]
               IN /\ semaphore' = out.sem
                  /\ tasks' = [out.ts EXCEPT ![t] = Task("uploading", "none", FALSE)]
    /\ UNCHANGED <<parserVars, histVars, clientVars, c_pc, c_html, c_todo,
                   c_result, max_concurrent>>

\* the end of the "async with" block: upload_file has returned or raised,
\* the callback has returned or raised, or the task was cancelled inside
\* upload_file; __aexit__ calls release
Finish(t) ==
    /\ t \in 1..Len(tasks)
    /\ tasks[t].pc = "uploading"
    /\ LET out == release(semaphore, tasks)
       IN /\ semaphore' = out.sem
          /\ tasks' = [out.ts EXCEPT ![t] = Task("done", "none", FALSE)]
    /\ UNCHANGED <<parserVars, histVars, clientVars, c_pc, c_html, c_todo,
                   c_result, max_concurrent>>

\* the caller cancels upload_files: gather cancels every task that is not
\* done, and a task that waits for a pending future cancels that future
Cancel ==
    /\ \E t \in 1..Len(tasks) : tasks[t].pc # "done" /\ ~tasks[t].must_cancel
    /\ tasks' = [t \in 1..Len(tasks) |->
                    IF tasks[t].pc = "done" THEN tasks[t]
                    ELSE IF tasks[t].fut = "pending"
                    THEN Task(tasks[t].pc, "cancelled", FALSE)
                    ELSE [tasks[t] EXCEPT !.must_cancel = TRUE]]
    /\ UNCHANGED <<parserVars, histVars, clientVars, c_pc, c_html, c_todo,
                   c_result, max_concurrent, semaphore>>

InitUpload ==
    /\ InitParser
    /\ InitIdle("")
    /\ \E n \in 0..MaxConcurrent : InitUploader(n)

NextUpload ==
    \/ \E n \in 1..MaxFiles : UploadFiles(n)
    \/ \E t \in 1..MaxFiles : Acquire(t)
    \/ \E t \in 1..MaxFiles : Resume(t)
    \/ \E t \in 1..MaxFiles : Finish(t)
    \/ Cancel

SpecUpload == InitUpload /\ [][NextUpload]_vars

----------------------------------------------------------------------------
(* SpecConcurrent: two callers inside HTMLProcessor.html_to_nodes of the   *)
(* same processor at once, each with its own HTML, their steps in any      *)
(* order.                                                                  *)

\* groups in one caller's HTML
MaxCallerLen == 2

\* caller 1 writes "x" and caller 2 writes "y"
CallerText(c) == IF c = 1 THEN Chars("x") ELSE Chars("y")

CallerInputs(c) ==
    UNION {Strings({CallerText(c), StartTag("p", <<>>), EndTag("p")}, n) :
              n \in 1..MaxCallerLen}

\* the call of html_to_nodes(html)
Enter(c, html) ==
    /\ c_pc[c] = "idle"
    /\ c_pc' = [c_pc EXCEPT ![c] = "feed"]
    /\ c_html' = [c_html EXCEPT ![c] = html]
    /\ UNCHANGED <<parserVars, histVars, clientVars, c_todo, c_result, uploadVars>>

\* HTMLParser.feed: self.rawdata = self.rawdata + data, and goahead's
\* rawdata = self.rawdata, the text this caller's loop will go through
Feed(c) ==
    /\ c_pc[c] = "feed"
    /\ rawdata' = rawdata \o c_html[c]
    /\ c_todo' = [c_todo EXCEPT ![c] = goahead(rawdata', 1, "")]
    /\ c_pc' = [c_pc EXCEPT ![c] = "goahead"]
    /\ UNCHANGED <<nodes, current_nodes, parent_stack, tag_stack, histVars,
                   clientVars, c_html, c_result, uploadVars>>

\* one turn of goahead's loop: the next handler call
Handle(c) ==
    /\ c_pc[c] = "goahead"
    /\ c_todo[c] # <<>>
    /\ LET P == Dispatch(Parser, Head(c_todo[c]))
       IN /\ nodes' = P.nodes
          /\ current_nodes' = P.current_nodes
          /\ parent_stack' = P.parent_stack
          /\ tag_stack' = P.tag_stack
          /\ c_pc' = [c_pc EXCEPT ![c] = IF P.exc # "" THEN "raised" ELSE @]
    /\ c_todo' = [c_todo EXCEPT ![c] = Tail(@)]
    /\ UNCHANGED <<rawdata, histVars, clientVars, c_html, c_result, uploadVars>>

\* the end of goahead: self.rawdata = rawdata[i:]
GoaheadEnd(c) ==
    /\ c_pc[c] = "goahead"
    /\ c_todo[c] = <<>>
    /\ rawdata' = <<>>
    /\ c_pc' = [c_pc EXCEPT ![c] = "get_nodes"]
    /\ UNCHANGED <<nodes, current_nodes, parent_stack, tag_stack, histVars,
                   clientVars, c_html, c_todo, c_result, uploadVars>>

\* nodes = self._parser.get_nodes()
GetNodes(c) ==
    /\ c_pc[c] = "get_nodes"
    /\ c_result' = [c_result EXCEPT ![c] = get_nodes(Parser)]
    /\ c_pc' = [c_pc EXCEPT ![c] = "reset"]
    /\ UNCHANGED <<parserVars, histVars, clientVars, c_html, c_todo, uploadVars>>

\* self._parser.reset(); return nodes
Reset(c) ==
    /\ c_pc[c] = "reset"
    /\ rawdata' = reset(Parser).rawdata
    /\ c_pc' = [c_pc EXCEPT ![c] = "done"]
    /\ UNCHANGED <<nodes, current_nodes, parent_stack, tag_stack, histVars,
                   clientVars, c_html, c_todo, c_result, uploadVars>>

NextConcurrent ==
    \E c \in Callers :
        \/ \E html \in CallerInputs(c) : Enter(c, html)
        \/ Feed(c)
        \/ Handle(c)
        \/ GoaheadEnd(c)
        \/ GetNodes(c)
        \/ Reset(c)

SpecConcurrent == InitObjects /\ [][NextConcurrent]_vars

----------------------------------------------------------------------------
(* SpecMarkdown: MarkdownProcessor.convert on a markdown text, and the     *)
(* steps _handle_images, _autolink_urls and _clean_unsupported_tags on an  *)
(* HTML string.  Nothing is kept from one call to the next: a behaviour is *)
(* one call.                                                               *)

\* blocks in one markdown text, groups in one HTML string given to a step
MaxBlocks == 2
MaxStepLen == 4

X == Chars("x")

\* headers of the six levels, paragraphs with a bold span, an italic span,
\* a raw <strong> that has an attribute, an image, a link whose text is bold
\* and a URL, and blocks of raw HTML: a div, the wrapper of a code block,
\* and a div in a div
Blocks ==
    {MdHeader(level, <<X>>) : level \in 1..6}
    \cup {MdPara(<<MdStrong("x")>>), MdPara(<<MdEm("x")>>),
          MdPara(<<StartTag("strong", <<<<"class", "c">>>>), X, EndTag("strong")>>),
          MdPara(<<MdImage(<<<<"alt", "a">>, <<"src", "s">>>>)>>),
          MdHtml(<<StartTag("div", <<>>), X, EndTag("div")>>),
          MdHtml(<<StartTag("div", <<<<"class", "highlight">>>>), X, EndTag("div")>>),
          MdHtml(<<StartTag("div", <<>>), StartTag("div", <<>>), X,
                   EndTag("div"), EndTag("div")>>)}

MarkdownTexts == UNION {Strings(Blocks, n) : n \in 1..MaxBlocks}

ImageGroups ==
    {StartTag("p", <<>>), EndTag("p"), X, Chars(" "),
     StartTag("img", <<<<"src", "s">>, <<"alt", "a">>>>),
     StartTag("img", <<<<"alt", "a">>, <<"title", "t">>, <<"src", "s">>>>)}

ImageInputs == UNION {Strings(ImageGroups, n) : n \in 0..MaxStepLen}

LinkGroups ==
    {StartTag("a", <<Href>>), EndTag("a"), StartTag("b", <<>>), EndTag("b"),
     StartTag("pre", <<>>), Chars("http://u"), X}

LinkInputs == UNION {Strings(LinkGroups, n) : n \in 0..MaxStepLen}

StripGroups ==
    {StartTag("div", <<>>), EndTag("div"), StartTag("span", <<>>),
     EndTag("span"), StartTag("p", <<>>), X}

\* what _autolink_urls hands on is str(soup): every tag in it is closed
StripInputs ==
    {SoupDecode(BeautifulSoup(h).tree, 1) :
        h \in UNION {Strings(StripGroups, n) : n \in 0..MaxStepLen}}

Convert(markdown_text) ==
    /\ ncalls = 0
    /\ LET out == convert(markdown_text)
       IN call' = [op |-> "convert", input |-> markdown_text, exc |-> out.exc,
                   value |-> out.value]
    /\ ncalls' = ncalls + 1
    /\ UNCHANGED <<parserVars, fed, clientVars, concVars>>

HandleImages(html) ==
    /\ ncalls = 0
    /\ LET out == handle_images(html)
       IN call' = [op |-> "_handle_images", input |-> html, exc |-> out.exc,
                   value |-> out.value]
    /\ ncalls' = ncalls + 1
    /\ UNCHANGED <<parserVars, fed, clientVars, concVars>>

AutolinkUrls(html) ==
    /\ ncalls = 0
    /\ LET out == autolink_urls(html)
       IN call' = [op |-> "_autolink_urls", input |-> html, exc |-> out.exc,
                   value |-> out.value]
    /\ ncalls' = ncalls + 1
    /\ UNCHANGED <<parserVars, fed, clientVars, concVars>>

CleanUnsupportedTags(html) ==
    /\ ncalls = 0
    /\ LET out == Str("", clean_unsupported_tags(html))
       IN call' = [op |-> "_clean_unsupported_tags", input |-> html, exc |-> out.exc,
                   value |-> out.value]
    /\ ncalls' = ncalls + 1
    /\ UNCHANGED <<parserVars, fed, clientVars, concVars>>

NextMarkdown ==
    \/ \E markdown_text \in MarkdownTexts : Convert(markdown_text)
    \/ \E html \in ImageInputs : HandleImages(html)
    \/ \E html \in LinkInputs : AutolinkUrls(html)
    \/ \E html \in StripInputs : CleanUnsupportedTags(html)

SpecMarkdown == InitObjects /\ [][NextMarkdown]_vars

----------------------------------------------------------------------------
(* Claims about the parser and the processor *)

RECURSIVE AllAllowed(_)
\* every element of the tree, at any depth, has an allowed tag and only
\* attribute keys allowed for that tag
AllAllowed(list) ==
    \A i \in 1..Len(list) :
        \/ list[i].isstr
        \/ /\ list[i].tag \in ALLOWED_TAGS
           /\ DictKeys(list[i].attrs) \subseteq ALLOWED_ATTRIBUTES(list[i].tag)
           /\ AllAllowed(list[i].children)

\* the element whose children list the path refers to
NodeAt(list, path) == ListAt(list, Front(path))[Last(path)]

AttrNames(attrs) == {attrs[i][1] : i \in 1..Len(attrs)}

\* the tree html_to_nodes returns for the input on a new HTMLProcessor
FreshTree(html) == html_to_nodes(NewParser, html).value

\* C1: the tree each html_to_nodes call returns is the tree a freshly
\* constructed processor returns for that call's input alone.
C1_FreshPerCall ==
    (call.op = "html_to_nodes" /\ call.exc = "") => call.value = FreshTree(call.input)

\* C2: every element of a returned tree, at any depth, has an allowed tag and
\* only attribute keys allowed for its tag; a start tag with disallowed
\* attributes still adds its element, with exactly the allowed ones.
C2_OnlyAllowed ==
    /\ AllAllowed(nodes)
    /\ call.op = "html_to_nodes" => AllAllowed(call.value)
    /\ (fed # <<>> /\ Last(fed).k = "start" /\ Last(fed).tag \in ALLOWED_TAGS) =>
           LET n == NodeAt(nodes, current_nodes)
           IN /\ n.tag = Last(fed).tag
              /\ DictKeys(n.attrs) =
                     AttrNames(Last(fed).attrs) \cap ALLOWED_ATTRIBUTES(n.tag)

\* C2 witness: a returned tree holds an <a> that kept href, from a start tag
\* that also carried onclick.
C2_Witness ==
    /\ call.op = "html_to_nodes"
    /\ \E i \in 1..Len(call.value) :
           /\ ~call.value[i].isstr
           /\ call.value[i].tag = "a"
           /\ DictKeys(call.value[i].attrs) = {"href"}
    /\ \E j \in 1..Len(fed) : "onclick" \in AttrNames(fed[j].attrs)

\* C4: html_to_nodes raises no exception, whatever the input string.
C4_NeverRaises == call.op = "html_to_nodes" => call.exc = ""

\* the events of allowed tags, and the text
AllowedOnly(evs) ==
    SelectSeq(evs, LAMBDA e : e.k = "data" \/ e.tag \in ALLOWED_TAGS)

\* C7: start and end tags outside the allowlist change nothing: the tree, the
\* insertion point and the open-element stack are the ones the same events
\* without those tags produce, so what a disallowed wrapper holds lands where
\* the wrapper stood, in document order.
C7_Flatten == Parser = Run(NewParser, AllowedOnly(fed))

\* C7 witness: the text inside <div>...</div> within an open <p> has become
\* a child of the <p>, which is still the open element.
C7_Witness ==
    /\ Len(fed) = 4
    /\ fed[1].k = "start" /\ fed[1].tag = "p"
    /\ fed[2].k = "start" /\ fed[2].tag = "div"
    /\ fed[3].k = "data" /\ ~IsBlank(fed[3].data)
    /\ fed[4].k = "end" /\ fed[4].tag = "div"
    /\ Len(nodes) = 1 /\ Len(nodes[1].children) = 1 /\ nodes[1].children[1].isstr
    /\ tag_stack = <<"p">>

RECURSIVE ReadFrom(_, _, _, _)
\* The elements a string of HTML has, read from group i on: a start tag
\* opens an element, that holds what follows up to its end tag; a start tag
\* of one of the tags in voids has no content and no end tag.  R is
\* [tree, open, names, ok]; ok is false when the tags do not match up.
ReadFrom(R, html, i, voids) ==
    IF i > Len(html) THEN [R EXCEPT !.ok = R.ok /\ R.open = <<>>]
    ELSE LET g == html[i]
             cur == IF R.open = <<>> THEN <<>> ELSE Last(R.open)
             idx == Len(ListAt(R.tree, cur)) + 1
             el == Element(g.tag, AttrDict(g.attrs, <<>>), <<>>)
         IN IF IsData(g)
            THEN LET j == DataRunEnd(html, i)
                 IN ReadFrom([R EXCEPT !.tree = AppendAt(R.tree, cur,
                                  Text(UnescapeAll(SubSeq(html, i, j))))],
                             html, j + 1, voids)
            ELSE IF g.k = "startend" \/ (g.k = "start" /\ g.tag \in voids)
            THEN ReadFrom([R EXCEPT !.tree = AppendAt(R.tree, cur, el)],
                          html, i + 1, voids)
            ELSE IF g.k = "start"
            THEN ReadFrom([R EXCEPT !.tree = AppendAt(R.tree, cur, el),
                                    !.open = Append(R.open, cur \o <<idx>>),
                                    !.names = Append(R.names, g.tag)],
                          html, i + 1, voids)
            ELSE IF g.k = "end" /\ R.names # <<>> /\ Last(R.names) = g.tag
            THEN ReadFrom([R EXCEPT !.open = Front(R.open),
                                    !.names = Front(R.names)],
                          html, i + 1, voids)
            ELSE [R EXCEPT !.ok = FALSE]

Read(html, voids) ==
    ReadFrom([tree |-> <<>>, open |-> <<>>, names |-> <<>>, ok |-> TRUE],
             html, 1, voids)


RECURSIVE SameElements(_, _)
\* the same tags in the same nesting and order, the same attribute set on
\* each element, the same text
SameElements(t1, t2) ==
    /\ Len(t1) = Len(t2)
    /\ \A i \in 1..Len(t1) :
           /\ t1[i].isstr = t2[i].isstr
           /\ t1[i].str = t2[i].str
           /\ t1[i].tag = t2[i].tag
           /\ DictItems(t1[i].attrs) = DictItems(t2[i].attrs)
           /\ SameElements(t1[i].children, t2[i].children)

\* the HTML has markup of allowed tags and allowed attributes only
BuiltFromAllowed(html) ==
    \A i \in 1..Len(html) :
        \/ html[i].k = "text"
        \/ /\ html[i].k \in {"start", "end", "startend"}
           /\ html[i].tag \in ALLOWED_TAGS
           /\ AttrNames(html[i].attrs) \subseteq ALLOWED_ATTRIBUTES(html[i].tag)

\* C8: for HTML built only from allowed tags and attributes (br, hr and img
\* being void), nodes_to_html(html_to_nodes(html)) has the elements of the
\* input: the same tags in the same nesting and order, the same attribute
\* sets, the same text.
C8_RoundTrip ==
    (/\ call.op = "html_to_nodes" /\ call.exc = ""
     /\ BuiltFromAllowed(call.input)
     /\ Read(call.input, VOID_ELEMENTS).ok) =>
        LET out == Read(nodes_to_html(call.value), {})
        IN out.ok /\ SameElements(out.tree, Read(call.input, VOID_ELEMENTS).tree)

\* the input has a script or style element: its start tag and, later on,
\* its end tag
HasScriptElement(html) ==
    \E i, j \in 1..Len(html) :
        /\ i < j
        /\ html[i].k = "start" /\ html[i].esc = 0
        /\ html[i].tag \in {"script", "style"}
        /\ html[j] = EndTag(html[i].tag)

\* the tags of the markup in a string
LiveTags(html) ==
    {html[i].tag : i \in {j \in 1..Len(html) : html[j].k # "text" /\ html[j].esc = 0}}

\* the text inside the script and style elements of a string
ScriptTexts(html) ==
    LET evs == goahead(html, 1, "")
    IN {evs[i + 1].data : i \in {j \in 1..(Len(evs) - 1) :
            /\ evs[j].k = "start" /\ evs[j].tag \in {"script", "style"}
            /\ evs[j + 1].k = "data" /\ ~IsBlank(evs[j + 1].data)}}

Contains(str, sub) ==
    \E o \in 0..(Len(str) - Len(sub)) : SubSeq(str, o + 1, o + Len(sub)) = sub

\* C9: for an input with a script or style element, the output of
\* sanitize_html has no script or style tag and none of the text that was
\* inside such an element.
C9_NoScript ==
    (/\ call.op = "sanitize_html" /\ call.exc = ""
     /\ HasScriptElement(call.input)) =>
        /\ LiveTags(call.value) \cap {"script", "style"} = {}
        /\ \A t \in ScriptTexts(call.input) : ~Contains(call.value, t)

----------------------------------------------------------------------------
(* Claims about validate_nodes *)

RECURSIVE IsValid(_)
\* valid in the sense of the data model: every element has an allowed tag
\* and only attribute keys allowed for it, and valid children
IsValid(list) ==
    \A i \in 1..Len(list) :
        \/ list[i].isstr
        \/ /\ "tag" \in list[i].keys
           /\ list[i].tag \in ALLOWED_TAGS
           /\ DictKeys(list[i].attrs) \subseteq ALLOWED_ATTRIBUTES(list[i].tag)
           /\ IsValid(list[i].children)

RECURSIVE HasTagless(_)
\* a dict without "tag" is in the list, or below one of its nodes
HasTagless(list) ==
    \E i \in 1..Len(list) :
        /\ ~list[i].isstr
        /\ "tag" \notin list[i].keys \/ HasTagless(list[i].children)

\* C5: validate_nodes returns true exactly for the trees that are valid in
\* the sense of the data model.
C5_ValidIff == call.op = "validate_nodes" => (call.value <=> IsValid(call.input))

\* C6: validate_nodes returns false for every tree that has, at the root or
\* at any depth below it, a dict without a "tag" key.
C6_TaglessInvalid ==
    (call.op = "validate_nodes" /\ HasTagless(call.input)) => call.value = FALSE

\* C6 witness: validate_nodes has returned false for a tree whose only dict
\* without "tag" lies two levels below the root list.
C6_Witness ==
    /\ call.op = "validate_nodes"
    /\ call.value = FALSE
    /\ Len(call.input) = 1
    /\ "tag" \in call.input[1].keys
    /\ Len(call.input[1].children) = 1
    /\ "tag" \in call.input[1].children[1].keys
    /\ Len(call.input[1].children[1].children) = 1
    /\ ~call.input[1].children[1].children[1].isstr
    /\ "tag" \notin call.input[1].children[1].children[1].keys

----------------------------------------------------------------------------
(* Claims about the client and about concurrent callers *)

\* the requests the page operation in progress has sent
SentByCall == {i \in 1..Len(requests) : requests[i].call = ncalls}

\* C3: create_page and edit_page send the request only after the content
\* became a node tree that passed validate_nodes: every request sent carries
\* a tree validate_nodes accepts, the requests of the operation in progress
\* carry its processed_content, and an operation that is converting its
\* content, or that raised before its request, has sent nothing.
C3_ValidatedBeforeSend ==
    /\ \A i \in 1..Len(requests) :
          /\ requests[i].endpoint \in {"createPage", "editPage"}
          /\ validate_nodes(loads(requests[i].content))
    /\ cl_pc.at \in {"request", "returned", "api_error"} =>
          /\ validate_nodes(processed_content)
          /\ \A i \in SentByCall : requests[i].content = dumps(processed_content)
    /\ cl_pc.at \in {"process", "raised"} => SentByCall = {}

\* the first operation sent its request, and the second one, given a tree
\* with a node that has no tag, raised and sent none
C3_Witness ==
    /\ cl_pc.at = "raised"
    /\ cl_content.content_type = "nodes"
    /\ ~validate_nodes(cl_content.content)
    /\ ncalls = 2
    /\ requests # <<>>
    /\ \A i \in 1..Len(requests) : requests[i].call = 1

\* C10: each of the callers that are inside html_to_nodes of the same
\* processor at once gets the tree of its own HTML and of nothing else,
\* whatever the order of their steps.
C10_OwnTree ==
    \A c \in Callers :
        c_pc[c] = "done" => c_result[c] = FreshTree(c_html[c])

\* C11: a content_type outside html, markdown and nodes is an error before
\* any request: the constructor of PageContent raises for it, and a page
\* operation that is given such a content all the same raises in
\* _process_content and sends nothing.
C11_UnsupportedType ==
    /\ (call.op = "PageContent" /\ call.input.content_type \notin CONTENT_TYPES)
          => call.exc = "ValueError"
    /\ (cl_pc.at # "idle" /\ cl_content.content_type \notin CONTENT_TYPES)
          => (cl_pc.at \in {"process", "raised"} /\ SentByCall = {})

\* a page operation was given a content of type "text" and has raised
C11_Witness ==
    /\ cl_pc.at = "raised"
    /\ cl_pc.op = "create_page"
    /\ cl_content.content_type = "text"
    /\ SentByCall = {}

\* C12: for content_type "nodes", _process_content gives back the caller's
\* tree as it is when validate_nodes accepts it and raises otherwise; the
\* parser is not touched and the tree is not changed.
C12_NodesAsIs ==
    [][(cl_pc.at = "process" /\ cl_content.content_type = "nodes") =>
          /\ UNCHANGED parserVars
          /\ UNCHANGED cl_content
          /\ IF validate_nodes(cl_content.content)
             THEN cl_pc'.at = "request" /\ processed_content' = cl_content.content
             ELSE cl_pc'.at = "raised" /\ UNCHANGED processed_content]_vars

\* a tree with an element in it went through _process_content
C12_Witness ==
    /\ cl_pc.at = "request"
    /\ cl_content.content_type = "nodes"
    /\ cl_content.content # <<>>
    /\ \E i \in 1..Len(cl_content.content) : ~cl_content.content[i].isstr
    /\ processed_content = cl_content.content

----------------------------------------------------------------------------
(* Claims about the Markdown processor *)

\* the headers of a markdown text whose level is one of the given ones
HeadersOf(text, levels) ==
    {i \in 1..Len(text) : text[i].k = "header" /\ text[i].level \in levels}

\* <outer><inner>body</inner></outer>, inner = "" for no inner tag
Wrapped(outer, inner, body) ==
    <<StartTag(outer, <<>>)>>
    \o (IF inner = "" THEN <<>> ELSE <<StartTag(inner, <<>>)>>)
    \o FlatMap(MdInline, body)
    \o (IF inner = "" THEN <<>> ELSE <<EndTag(inner)>>)
    \o <<EndTag(outer)>>

Converted == call.op = "convert" /\ call.exc = ""

\* C13: convert writes a header of level 1 as <h3>...</h3> and a header of
\* level 2 as <h4>...</h4>; the demotion of h3 to h6 does not touch them.
C13_HeaderRemap ==
    Converted =>
        /\ \A i \in HeadersOf(call.input, {1}) :
              Contains(call.value, Wrapped("h3", "", call.input[i].body))
        /\ \A i \in HeadersOf(call.input, {2}) :
              Contains(call.value, Wrapped("h4", "", call.input[i].body))

\* C14: in the HTML convert returns, a header of level 3, 4, 5 or 6 is
\* <p><strong>...</strong></p>.
C14_HeaderStrong ==
    Converted =>
        \A i \in HeadersOf(call.input, {3, 4, 5, 6}) :
            Contains(call.value, Wrapped("p", "strong", call.input[i].body))

\* C15: in the HTML convert returns, a header of level 5 or 6 is
\* <p><em>...</em></p>.
C15_HeaderEm ==
    Converted =>
        \A i \in HeadersOf(call.input, {5, 6}) :
            Contains(call.value, Wrapped("p", "em", call.input[i].body))

\* C16: the HTML convert returns has no strong tag and no em tag, start or
\* end.
C16_NoStrongEm ==
    Converted =>
        \A i \in 1..Len(call.value) :
            ~(Opens(call.value[i], {"strong", "em"})
              \/ Closes(call.value[i], {"strong", "em"}))

RECURSIVE LonelyToFigure(_, _)
\* the contents of a tag from child i on, in which every p whose contents
\* are one img and blank strings is replaced by the figure of the img: src
\* only on the img, the title as caption, or the alt for an img with no
\* title; everything else is as it was
LonelyToFigure(list, i) ==
    IF i > Len(list) THEN <<>>
    ELSE LET n == list[i]
             tags == {k \in 1..Len(n.children) : ~n.children[k].isstr}
             img == n.children[CHOOSE k \in tags : TRUE]
             caption == IF "title" \in DictKeys(img.attrs)
                        THEN DictGet(img.attrs, "title", "")
                        ELSE DictGet(img.attrs, "alt", "")
         IN (IF n.isstr THEN <<n>>
             ELSE IF /\ n.tag = "p"
                     /\ Cardinality(tags) = 1
                     /\ img.tag = "img"
                     /\ \A k \in 1..Len(n.children) :
                           k \in tags \/ IsBlank(n.children[k].str)
             THEN <<Element("figure", <<>>,
                      <<Element("img", <<<<"src", DictGet(img.attrs, "src", "")>>>>, <<>>),
                        Element("figcaption", <<>>,
                                IF caption = "" THEN <<>>
                                ELSE <<Text(<<Chars(caption)>>)>>)>>)>>
             ELSE <<[n EXCEPT !.children = LonelyToFigure(n.children, 1)]>>)
            \o LonelyToFigure(list, i + 1)

\* C17: _handle_images replaces a p whose only content besides whitespace
\* is one img by the figure with the img (src only) and the caption (title,
\* else alt), and leaves every img that has a sibling as it is.
C17_LonelyImage ==
    call.op = "_handle_images" =>
        /\ call.exc = ""
        /\ call.value = SoupDecode(LonelyToFigure(BeautifulSoup(call.input).tree, 1), 1)

RECURSIVE LinksBelow(_, _, _)
\* how many a elements from child i on lie below an a, pre or code element;
\* below says whether the list itself does
LinksBelow(list, i, below) ==
    IF i > Len(list) THEN 0
    ELSE LET n == list[i]
         IN (IF n.isstr THEN 0
             ELSE (IF below /\ n.tag = "a" THEN 1 ELSE 0)
                  + LinksBelow(n.children, 1, below \/ n.tag \in {"a", "pre", "code"}))
            + LinksBelow(list, i + 1, below)

\* C18: _autolink_urls wraps no URL that lies inside an a, pre or code
\* element, at any depth: its output has no more a elements below such an
\* element than its input had.
C18_NoLinkInside ==
    call.op = "_autolink_urls" =>
        /\ call.exc = ""
        /\ LinksBelow(BeautifulSoup(call.value).tree, 1, FALSE)
              = LinksBelow(BeautifulSoup(call.input).tree, 1, FALSE)

UnsupportedNames == {unsupported_tags[k] : k \in 1..Len(unsupported_tags)}

DropUnsupported(g) ==
    IF Opens(g, UnsupportedNames) \/ Closes(g, UnsupportedNames) THEN <<>> ELSE <<g>>

\* C19: after _clean_unsupported_tags no start tag and no end tag of the
\* unsupported names is left, nested or not, and all the rest of the string
\* is there in its order.
C19_AllStripped ==
    call.op = "_clean_unsupported_tags" =>
        call.value = FlatMap(DropUnsupported, call.input)

RECURSIVE Count(_, _)
\* how many groups of the string are in the set
Count(html, groups) ==
    IF html = <<>> THEN 0
    ELSE (IF Head(html) \in groups THEN 1 ELSE 0) + Count(Tail(html), groups)

\* C20: in convert only the <div class="highlight"> wrapper becomes a pre;
\* of a div of any other kind neither tag is left in the output, and no
\* <pre> and no </pre> is written for it.
C20_OnlyHighlight ==
    Converted =>
        LET wrappers == Count(markdown(call.input),
                              {StartTag("div", <<<<"class", "highlight">>>>)})
        IN /\ \A i \in 1..Len(call.value) :
                 ~(Opens(call.value[i], {"div"}) \/ Closes(call.value[i], {"div"}))
           /\ Count(call.value, {StartTag("pre", <<>>)}) = wrappers
           /\ Count(call.value, {EndTag("pre")}) = wrappers


----------------------------------------------------------------------------
(* Claims about the size check.                                            *)

\* the length of the UTF-8 encoding of a string that has one
Utf8Length(content) ==
    Sum([i \in 1..Len(content) |->
            CASE content[i].w = 1 -> content[i].n
              [] content[i].w = 2 -> 2 * content[i].n
              [] content[i].w = 3 -> 3 * content[i].n
              [] OTHER -> 4 * content[i].n])

HasUtf8(content) == \A i \in 1..Len(content) : content[i].w # 0

\* C21: validate_content_size(s) is true exactly when the UTF-8 encoding of s
\* is at most 65536 bytes long; 65536 bytes are accepted, 65537 rejected, and
\* the length is counted in bytes, not in characters.
C21_SizeInBytes ==
    call.op = "validate_content_size" =>
        /\ (call.exc = "" /\ call.value = TRUE)
               <=> (HasUtf8(call.input) /\ Utf8Length(call.input) <= 65536)
        /\ call.input = <<CharRun(1, 65536)>> => call.value = TRUE
        /\ call.input = <<CharRun(1, 65537)>> => call.value = FALSE
        /\ call.input = <<CharRun(3, 21845), CharRun(1, 1)>> => call.value = TRUE
        /\ call.input = <<CharRun(3, 21845), CharRun(2, 1)>> => call.value = FALSE

\* 21846 characters that take 65537 bytes have been rejected
C21_Witness ==
    /\ call.op = "validate_content_size"
    /\ call.input = <<CharRun(3, 21845), CharRun(2, 1)>>
    /\ call.exc = ""
    /\ call.value = FALSE


----------------------------------------------------------------------------
(* Claims about the account operations and about _make_request.            *)

TokenOps ==
    {"get_account_info", "edit_account_info", "edit_page", "get_page_list",
     "revoke_access_token"}

\* C22: get_account_info, edit_account_info, edit_page, get_page_list and
\* revoke_access_token, called on a client that holds no access token, raise
\* TelegraphError without sending any request and leave the token unchanged.
C22_TokenRequired ==
    /\ [][(access_token = "" /\ ncalls' = ncalls + 1 /\ cl_pc'.op \in TokenOps)
            => /\ cl_pc'.at = "raised"
               /\ cl_exc' = "TelegraphError"
               /\ requests' = requests
               /\ access_token' = access_token]_vars
    /\ []((cl_pc.op \in TokenOps /\ cl_pc.at = "raised"
              /\ cl_exc = "TelegraphError")
            => (SentByCall = {} /\ access_token = ""))

\* the second operation of a client without a token was revoke_access_token
\* and has raised, after a create_account that did send its request
C22_Witness ==
    /\ ncalls = 2
    /\ cl_pc.op = "revoke_access_token"
    /\ cl_pc.at = "raised"
    /\ cl_exc = "TelegraphError"
    /\ access_token = ""
    /\ requests # <<>>

\* C24: create_account replaces the client's token with the new account's
\* exactly when replace_token is true and the response carries a token; in
\* every other case, and whenever create_account fails, the token is
\* unchanged.
C24_ReplaceToken ==
    [][cl_pc'.op = "create_account"
         => IF /\ cl_pc.op = "create_account"
               /\ cl_pc.at = "request"
               /\ cl_pc'.at = "returned"
               /\ cl_args.replace_token
               /\ cl_response'.result.access_token # ""
            THEN access_token' = cl_response'.result.access_token
            ELSE access_token' = access_token]_vars

\* create_account(replace_token=True) has returned on a client that had the
\* token "token", and the client now has the token of the answer
C24_Witness ==
    /\ cl_pc.op = "create_account"
    /\ cl_pc.at = "returned"
    /\ cl_args.replace_token
    /\ ncalls = 1
    /\ access_token = "new"

\* C27: _make_request performs at most max_retries + 1 attempts and then
\* ends: it returns the result of the first successful attempt or raises
\* TelegraphAPIError, whatever the attempts produce.
C27_BoundedAttempts ==
    /\ Cardinality(SentByCall) <= max_retries + 1
    /\ cl_pc.at = "request" => Cardinality(SentByCall) = cl_pc.attempt
    /\ (cl_pc.at \in {"returned", "api_error", "failed"} /\ cl_exc # "KeyError")
          => \/ cl_exc = "" /\ cl_response.kind = "json" /\ cl_response.ok
             \/ cl_exc = "TelegraphAPIError" /\ cl_pc.at = "api_error"

\* an API error of the text of the model
ApiError(r) == r.kind = "json" /\ ~r.ok

\* C28: _make_request starts another attempt in two cases only, each only
\* while attempts remain: after an API error whose text contains FLOOD_WAIT,
\* having slept the number of seconds at the end of the text, and after an
\* aiohttp.ClientError, having slept 2**attempt seconds; any other API error
\* raises TelegraphAPIError at once, and on the last attempt every failure
\* raises.
C28_RetryCases ==
    [][(cl_pc.at = "request" /\ requests' # requests) =>
         LET r == cl_response'
             attempt == cl_pc.attempt
             again == cl_pc'.at = "request" /\ cl_pc'.attempt = attempt + 1
             power == CASE attempt = 0 -> 1 [] attempt = 1 -> 2
                        [] attempt = 2 -> 4 [] OTHER -> 8
         IN /\ again =>
                 /\ attempt < max_retries
                 /\ \/ /\ ApiError(r)
                       /\ FloodWait(r.error)
                       /\ Last(r.error) \in {"0", "1", "2", "3"}
                       /\ slept' = <<Numerals[Last(r.error)]>>
                    \/ /\ r.kind = "ClientError"
                       /\ slept' = <<power>>
            /\ ~again => (cl_pc'.at # "request" /\ slept' = <<>>)
            /\ (r.kind = "ClientError" /\ attempt < max_retries) => again
            /\ (ApiError(r) /\ r.error = <<"FLOOD", "WAIT", "3">>
                  /\ attempt < max_retries) => again
            /\ (ApiError(r) /\ ~FloodWait(r.error))
                 => (cl_pc'.at = "api_error" /\ cl_exc' = "TelegraphAPIError")
            /\ (attempt = max_retries /\ ~(r.kind = "json" /\ r.ok))
                 => (cl_pc'.at = "api_error" /\ cl_exc' = "TelegraphAPIError")]_vars

\* the second attempt is about to start, three seconds after the flood-wait
\* error that ended the first
C28_Witness ==
    /\ cl_pc.at = "request"
    /\ cl_pc.attempt = 1
    /\ cl_response # <<>>
    /\ cl_response.error = <<"FLOOD", "WAIT", "3">>
    /\ slept = <<3>>


----------------------------------------------------------------------------
(* Claims about the batch uploader.                                        *)

\* C23: during upload_files, at no moment are more than max_concurrent
\* uploads in progress, for any number of files and any order in which the
\* uploads complete.
C23_AtMostMaxConcurrent == Cardinality(Uploading) <= max_concurrent

\* as many uploads in progress as max_concurrent allows, and a file waiting
C23_Witness ==
    /\ max_concurrent = 2
    /\ Cardinality(Uploading) = 2
    /\ \E t \in 1..Len(tasks) : tasks[t].pc = "waiting"


----------------------------------------------------------------------------
(* Claims about the open-element stack of the parser.                      *)

\* C25: an end tag pops the open-element stack, and the insertion point
\* returns to the parent, only when its name equals the tag on top of the
\* stack; any other end tag, stray or matching an element deeper in the
\* stack, leaves the stack, the insertion point and the tree unchanged.
C25_EndTagPops ==
    [][(Len(fed') = Len(fed) + 1 /\ Last(fed').k = "end") =>
         IF tag_stack # <<>> /\ Last(tag_stack) = Last(fed').tag
         THEN /\ tag_stack' = Front(tag_stack)
              /\ parent_stack' = Front(parent_stack)
              /\ current_nodes' = Last(parent_stack)
              /\ nodes' = nodes
         ELSE UNCHANGED <<nodes, current_nodes, parent_stack, tag_stack>>]_vars

\* </p> came while <a> was open inside <p>, and both are still open
C25_Witness ==
    /\ Len(fed) = 3
    /\ fed[3].k = "end"
    /\ fed[3].tag = "p"
    /\ tag_stack = <<"p", "a">>
    /\ Len(parent_stack) = 2

\* C26: when html_to_nodes returns, no element is left open, also when the
\* input had unclosed tags: tag_stack and parent_stack are empty and the
\* insertion point is the root list.
C26_NothingLeftOpen ==
    (call.op = "html_to_nodes" /\ call.exc = "") =>
        /\ tag_stack = <<>>
        /\ parent_stack = <<>>
        /\ current_nodes = NewParser.current_nodes

RECURSIVE VoidLeaves(_)
\* no br, hr or img of the tree has a child
VoidLeaves(list) ==
    \A i \in 1..Len(list) :
        \/ list[i].isstr
        \/ /\ list[i].tag \in {"br", "hr", "img"} => list[i].children = <<>>
           /\ VoidLeaves(list[i].children)

\* C29: in html_to_nodes, a void element (br, hr, img) written as a start
\* tag does not become the insertion point for what follows it: the content
\* after it is its sibling, and the end tag of its parent closes the parent.
C29_VoidNotOpen ==
    (call.op = "html_to_nodes" /\ call.exc = "" /\ ncalls = 1) =>
        /\ VoidLeaves(call.value)
        /\ \A i \in 1..Len(tag_stack) : tag_stack[i] \notin {"br", "hr", "img"}
        /\ call.input = <<StartTag("p", <<>>), StartTag("br", <<>>), EndTag("p")>>
              => tag_stack = <<>>

\* C30: every tree html_to_nodes returns passes validate_nodes, for every
\* input and after any earlier calls, so that ContentValidator.html_to_nodes,
\* which raises "Invalid node structure" when validate_nodes says no, never
\* does.  Stated over the handler calls: the tree is valid after each of
\* them, and so is the list get_nodes hands back.
C30_ParserTreesValid ==
    /\ validate_nodes(nodes)
    /\ call.op = "html_to_nodes" => validate_nodes(call.value)

\* the second call has returned a tree with an element that has a child
C30_Witness ==
    /\ call.op = "html_to_nodes"
    /\ ncalls = 2
    /\ \E i \in 1..Len(call.value) :
          ~call.value[i].isstr /\ call.value[i].children # <<>>

====
